---------------------------- MODULE Spec2Model ----------------------------
(***************************************************************************)
(* A model of the regular-expression engine of src/packages/core/regexp.cc *)
(* (Henry Spencer's regexp library as altered for the driver): the pattern *)
(* preprocessor and the two-pass compiler regcomp, the backtracking        *)
(* matcher regexec / regtry / regmatch / regrepeat, and the substitution   *)
(* engine regsub.                                                          *)
(*                                                                         *)
(* Bytes and characters are their ASCII codes.  A pointer into the program *)
(* is the 1-based index of the byte it points to (program[1] is MAGIC, the *)
(* first node starts at 2); a pointer into the subject is the 0-based      *)
(* offset from the subject's start, the terminating NUL being at           *)
(* Len(subject).                                                           *)
(***************************************************************************)
EXTENDS Integers, Sequences, FiniteSets, TLC

-----------------------------------------------------------------------------
(* Opcodes and utility definitions, regexp.cc lines 86-208.                *)

MAGIC == 156
END == 0
BOL == 1
EOL == 2
ANY == 3
ANYOF == 4
ANYBUT == 5
BRANCH == 6
BACK == 7
EXACTLY == 8
NOTHING == 9
STAR == 10
PLUS == 11
WORDSTART == 12
WORDEND == 13
OPEN == 20
CLOSE == 30

SPECIAL == 256
CHARBITS == 255

HASWIDTH == 1
SIMPLE == 2
SPSTART == 4
WORST == 0

\* regexp.h: the number of capture slots (slot 0 and nine groups)
NSUBEXP == 10

\* the null pointer (program pointers) and the address of regdummy
NULLP == 0
REGDUMMY == -1
\* the null pointer of the capture tables (subject pointers are offsets >= 0)
NOPTR == -1
\* the content of startp/endp before any regtry has cleared them
UNINIT == -2

\* ASCII codes of the characters the model uses
chLP == 40
chRP == 41
chStar == 42
chPlus == 43
chMinus == 45
chDot == 46
chQm == 63
chOr == 124
chDollar == 36
chCaret == 94
chLsq == 91
chRsq == 93
chLt == 60
chGt == 62
chBsl == 92
chAmp == 38
chLbrace == 123
chRbrace == 125
chSp == 32
chUnder == 95
ch0 == 48
ch1 == 49
ch2 == 50
ch9 == 57
chA == 97
chB == 98
chC == 99
chD == 100
chT == 116
chR == 114

LBRAC == chLP + SPECIAL
RBRAC == chRP + SPECIAL
ASTERIX == chStar + SPECIAL
PLUSS == chPlus + SPECIAL
QMARK == chQm + SPECIAL
OR_OP == chOr + SPECIAL
DOLLAR == chDollar + SPECIAL
DOT == chDot + SPECIAL
CARET == chCaret + SPECIAL
LSQBRAC == chLsq + SPECIAL
RSQBRAC == chRsq + SPECIAL
LSHBRAC == chLt + SPECIAL
RSHBRAC == chGt + SPECIAL

ISMULT(c) == c = ASTERIX \/ c = PLUSS \/ c = QMARK

\* isalnum() in the C locale
isalnum(c) == (c >= 48 /\ c <= 57) \/ (c >= 65 /\ c <= 90) \/ (c >= 97 /\ c <= 122)

ISWORDPART(c) == isalnum(c) \/ c = chUnder

\* flag words are bit sets over HASWIDTH, SIMPLE, SPSTART
HasFlag(f, b) == (f \div b) % 2 = 1

FlagOr(f, g) ==
  (IF HasFlag(f, 1) \/ HasFlag(g, 1) THEN 1 ELSE 0)
  + (IF HasFlag(f, 2) \/ HasFlag(g, 2) THEN 2 ELSE 0)
  + (IF HasFlag(f, 4) \/ HasFlag(g, 4) THEN 4 ELSE 0)

FlagAnd(f, g) ==
  (IF HasFlag(f, 1) /\ HasFlag(g, 1) THEN 1 ELSE 0)
  + (IF HasFlag(f, 2) /\ HasFlag(g, 2) THEN 2 ELSE 0)
  + (IF HasFlag(f, 4) /\ HasFlag(g, 4) THEN 4 ELSE 0)

FlagClear(f, b) == IF HasFlag(f, b) THEN f - b ELSE f

-----------------------------------------------------------------------------
(* Program access: OP, NEXT, OPERAND, regnext; C strings in the program.   *)

OP(code, p) == code[p]

NEXT(code, p) == (code[p + 1] % 256) * 256 + (code[p + 2] % 256)

OPERAND(p) == p + 3

regnext(code, p) ==
  IF p = REGDUMMY THEN NULLP
  ELSE LET offset == NEXT(code, p)
       IN IF offset = 0 THEN NULLP
          ELSE IF OP(code, p) = BACK THEN p - offset ELSE p + offset

\* the NUL-terminated string that starts at program index p
RECURSIVE CStr(_, _)
CStr(code, p) ==
  IF p > Len(code) \/ code[p] = 0 THEN << >> ELSE << code[p] >> \o CStr(code, p + 1)

\* the byte at subject offset i, the terminator at (and after) the end
CharAt(str, i) == IF i >= 0 /\ i < Len(str) THEN str[i + 1] ELSE 0

\* strchr(set, c) != NULL for the C string at program index set: is c one
\* of its bytes, the terminating NUL included
RECURSIVE InStr(_, _, _)
InStr(code, set, c) ==
  IF set > Len(code) \/ code[set] = 0 THEN c = 0
  ELSE code[set] = c \/ InStr(code, set + 1, c)

-----------------------------------------------------------------------------
(* The pattern preprocessor: regcomp lines 276-330.  exp is the pattern    *)
(* without its terminating NUL; the result holds the token stream exp2     *)
(* with its terminating 0 token, or the error message.                     *)

PatAt(exp, i) == IF i <= Len(exp) THEN exp[i] ELSE 0

MetaChars == {chDot, chStar, chPlus, chQm, chOr, chDollar, chCaret, chLsq, chRsq}

RECURSIVE TokenizeEscapedLiteral(_, _, _, _), Tokenize(_, _, _, _)

\* Tokenize that takes an escaped parenthesis as a literal whatever
\* excompat is
TokenizeEscapedLiteral(exp, excompat, i, dest) ==
  LET c == PatAt(exp, i)
      e == PatAt(exp, i + 1)
  IN IF c = 0 THEN [err |-> "", exp2 |-> Append(dest, 0)]
     ELSE IF c = chLP \/ c = chRP
       THEN TokenizeEscapedLiteral(exp, excompat, i + 1,
                     Append(dest, IF excompat # 0 THEN c ELSE c + SPECIAL))
     ELSE IF c \in MetaChars
       THEN TokenizeEscapedLiteral(exp, excompat, i + 1, Append(dest, c + SPECIAL))
     ELSE IF c = chBsl
       THEN IF e = 0
              THEN [err |-> "Regular expression cannot end with '\\'", exp2 |-> << >>]
            ELSE IF e = chLt \/ e = chGt
              THEN TokenizeEscapedLiteral(exp, excompat, i + 2, Append(dest, e + SPECIAL))
            ELSE IF e = chLbrace \/ e = chRbrace
              THEN [err |-> "sorry, unimplemented operator", exp2 |-> << >>]
            ELSE IF e = chB THEN TokenizeEscapedLiteral(exp, excompat, i + 2, Append(dest, 8))
            ELSE IF e = chT THEN TokenizeEscapedLiteral(exp, excompat, i + 2, Append(dest, 9))
            ELSE IF e = chR THEN TokenizeEscapedLiteral(exp, excompat, i + 2, Append(dest, 13))
            ELSE TokenizeEscapedLiteral(exp, excompat, i + 2, Append(dest, e))
     ELSE TokenizeEscapedLiteral(exp, excompat, i + 1, Append(dest, c))

\* regcomp lines 278-330: the preprocessor, from exp[i] on, dest the
\* tokens written so far
Tokenize(exp, excompat, i, dest) ==
  LET c == PatAt(exp, i)
      e == PatAt(exp, i + 1)
  IN IF c = 0 THEN [err |-> "", exp2 |-> Append(dest, 0)]
     ELSE IF c = chLP \/ c = chRP
       THEN Tokenize(exp, excompat, i + 1,
                     Append(dest, IF excompat # 0 THEN c ELSE c + SPECIAL))
     ELSE IF c \in MetaChars
       THEN Tokenize(exp, excompat, i + 1, Append(dest, c + SPECIAL))
     ELSE IF c = chBsl
       THEN IF e = 0
              THEN [err |-> "Regular expression cannot end with '\\'", exp2 |-> << >>]
            ELSE IF e = chLP \/ e = chRP
              THEN Tokenize(exp, excompat, i + 2,
                            Append(dest, IF excompat # 0 THEN e + SPECIAL ELSE e))
            ELSE IF e = chLt \/ e = chGt
              THEN Tokenize(exp, excompat, i + 2, Append(dest, e + SPECIAL))
            ELSE IF e = chLbrace \/ e = chRbrace
              THEN [err |-> "sorry, unimplemented operator", exp2 |-> << >>]
            ELSE IF e = chB THEN Tokenize(exp, excompat, i + 2, Append(dest, 8))
            ELSE IF e = chT THEN Tokenize(exp, excompat, i + 2, Append(dest, 9))
            ELSE IF e = chR THEN Tokenize(exp, excompat, i + 2, Append(dest, 13))
            ELSE Tokenize(exp, excompat, i + 2, Append(dest, e))
     ELSE Tokenize(exp, excompat, i + 1, Append(dest, c))

-----------------------------------------------------------------------------
(* The compiler's work variables (regparse, regnpar, regcode, regsize) are *)
(* the fields of a parse state st: exp2 the token stream, regparse the     *)
(* index of the next token, emit = (regcode # &regdummy), code the bytes   *)
(* emitted so far (regcode points just past them), err the message handed  *)
(* to regerror ("" when none).                                             *)

Tok(st) == st.exp2[st.regparse]

Advance(st) == [st EXCEPT !.regparse = @ + 1]

\* FAIL(m): regerror(m); return NULL
Fail(st, m) == [st |-> [st EXCEPT !.err = m], ret |-> NULLP, flags |-> WORST]

regnode(st, op) ==
  IF ~st.emit
    THEN [st |-> [st EXCEPT !.regsize = @ + 3], ret |-> REGDUMMY]
    ELSE [st |-> [st EXCEPT !.code = @ \o << op, 0, 0 >>], ret |-> Len(st.code) + 1]

regc(st, b) ==
  IF st.emit THEN [st EXCEPT !.code = Append(@, b % 256)]
  ELSE [st EXCEPT !.regsize = @ + 1]

\* reginsert that does not count its three bytes in the first pass
reginsertUncounted(st, op, opnd) ==
  IF ~st.emit THEN st
  ELSE [st EXCEPT !.code = SubSeq(@, 1, opnd - 1) \o << op, 0, 0 >>
                            \o SubSeq(@, opnd, Len(@))]

reginsert(st, op, opnd) ==
  IF ~st.emit THEN [st EXCEPT !.regsize = @ + 3]
  ELSE [st EXCEPT !.code = SubSeq(@, 1, opnd - 1) \o << op, 0, 0 >>
                             \o SubSeq(@, opnd, Len(@))]

\* the last node of the chain that starts at p
RECURSIVE ChainEnd(_, _)
ChainEnd(code, p) ==
  LET temp == regnext(code, p)
  IN IF temp = NULLP THEN p ELSE ChainEnd(code, temp)

regtail(st, p, val) ==
  IF p = REGDUMMY THEN st
  ELSE LET scan == ChainEnd(st.code, p)
           offset == IF OP(st.code, scan) = BACK THEN scan - val ELSE val - scan
       IN [st EXCEPT !.code = [@ EXCEPT ![scan + 1] = (offset \div 256) % 256,
                                        ![scan + 2] = offset % 256]]

regoptail(st, p, val) ==
  IF p = NULLP \/ p = REGDUMMY THEN st
  ELSE IF OP(st.code, p) # BRANCH THEN st
  ELSE regtail(st, OPERAND(p), val)

-----------------------------------------------------------------------------
(* The recursive-descent parser: reg, regbranch, regpiece, regatom.  Each  *)
(* returns [st, ret, flags]: the parse state after the call, the node      *)
(* returned (NULLP after FAIL) and the flags stored through flagp.         *)

RECURSIVE reg(_, _), regatom(_)
RECURSIVE regAlternatives(_, _, _), regHookTails(_, _, _), regbranchPieces(_, _, _)
RECURSIVE regclassBody(_), regLiteralLen(_, _), regLiteralEmit(_, _)

\* regclassRange that stops one short of classend: for (; classs < classend; ...)
regclassRangeExclusive(st, classs, classend) ==
  IF classs > classend - 1 THEN st
  ELSE IF st.emit
    THEN [st EXCEPT !.code = @ \o [i \in 1..(classend - classs) |-> classs + i - 1]]
  ELSE [st EXCEPT !.regsize = @ + (classend - classs)]

\* regatom lines 645-647: for (; classs <= classend; classs++) regc(classs)
regclassRange(st, classs, classend) ==
  IF classs > classend THEN st
  ELSE IF st.emit
    THEN [st EXCEPT !.code = @ \o [i \in 1..(classend - classs + 1) |-> classs + i - 1]]
  ELSE [st EXCEPT !.regsize = @ + (classend - classs + 1)]

\* regatom lines 634-653: the members of a character class
regclassBody(st) ==
  IF Tok(st) = 0 \/ Tok(st) = RSQBRAC THEN st
  ELSE IF Tok(st) = chMinus
    THEN LET s1 == Advance(st)
         IN IF Tok(s1) = RSQBRAC \/ Tok(s1) = 0
              THEN regclassBody(regc(s1, chMinus))
            ELSE LET classs == (s1.exp2[s1.regparse - 2] % (CHARBITS + 1)) + 1
                     classend == Tok(s1) % (CHARBITS + 1)
                 IN IF classs > classend + 1
                      THEN [s1 EXCEPT !.err = "invalid [] range"]
                    ELSE regclassBody(Advance(regclassRange(s1, classs, classend)))
  ELSE regclassBody(Advance(regc(st, Tok(st))))

\* regatom lines 621-660: case LSQBRAC, st already past the bracket
regclass(st) ==
  LET n == IF Tok(st) = CARET THEN regnode(st, ANYBUT) ELSE regnode(st, ANYOF)
      s1 == IF Tok(st) = CARET THEN Advance(n.st) ELSE n.st
      s2 == IF Tok(s1) = RSQBRAC \/ Tok(s1) = chMinus
              THEN Advance(regc(s1, Tok(s1))) ELSE s1
      s3 == regclassBody(s2)
      s4 == regc(s3, 0)
  IN IF s3.err # "" THEN [st |-> s3, ret |-> NULLP, flags |-> WORST]
     ELSE IF Tok(s4) # RSQBRAC THEN Fail(s4, "unmatched []")
     ELSE [st |-> Advance(s4), ret |-> n.ret, flags |-> HASWIDTH + SIMPLE]

\* regatom lines 687-690: the length of the run of ordinary characters
regLiteralLen(st, len) ==
  LET c == st.exp2[st.regparse + len]
  IN IF c # 0 /\ ~HasFlag(c, SPECIAL) /\ c # RSQBRAC
       THEN regLiteralLen(st, len + 1) ELSE len

\* regatom lines 703-706: while (len > 0) regc(*regparse++)
regLiteralEmit(st, len) ==
  IF len > 0 THEN regLiteralEmit(Advance(regc(st, Tok(st))), len - 1) ELSE st

\* regliteral without the back-off of lines 694-696: the whole run becomes
\* the operand of the repeat operator that follows it
regliteralNoBackOff(st) ==
  LET len == regLiteralLen(st, 0)
      n == regnode(st, EXACTLY)
  IN IF len <= 0 THEN Fail(st, "unexpected ]")
     ELSE [st |-> regc(regLiteralEmit(n.st, len), 0), ret |-> n.ret,
           flags |-> IF len = 1 THEN HASWIDTH + SIMPLE ELSE HASWIDTH]

\* regatom lines 682-708: the default case, st at the first character
regliteral(st) ==
  LET len0 == regLiteralLen(st, 0)
      ender == st.exp2[st.regparse + len0]
      len == IF len0 > 1 /\ ISMULT(ender) THEN len0 - 1 ELSE len0
      n == regnode(st, EXACTLY)
  IN IF len0 <= 0 THEN Fail(st, "unexpected ]")
     ELSE [st |-> regc(regLiteralEmit(n.st, len), 0), ret |-> n.ret,
           flags |-> IF len = 1 THEN HASWIDTH + SIMPLE ELSE HASWIDTH]

\* regatomParen that reports every group as one that has width
regatomParenWide(r) ==
  IF r.ret = NULLP THEN [st |-> r.st, ret |-> NULLP, flags |-> WORST]
  ELSE [st |-> r.st, ret |-> r.ret,
        flags |-> FlagOr(FlagAnd(r.flags, SPSTART), HASWIDTH)]

\* regatom lines 662-667: r what the parenthesized reg(1, &flags) returned
regatomParen(r) ==
  IF r.ret = NULLP THEN [st |-> r.st, ret |-> NULLP, flags |-> WORST]
  ELSE [st |-> r.st, ret |-> r.ret, flags |-> FlagAnd(r.flags, HASWIDTH + SPSTART)]

\* regatom lines 606-620: n the operand-less node emitted, flags through flagp
regatomNode(n, flags) == [st |-> n.st, ret |-> n.ret, flags |-> flags]

regatom(st) ==
  LET c == Tok(st)
  IN CASE c = CARET -> regatomNode(regnode(Advance(st), BOL), WORST)
       [] c = DOLLAR -> regatomNode(regnode(Advance(st), EOL), WORST)
       [] c = DOT -> regatomNode(regnode(Advance(st), ANY), HASWIDTH + SIMPLE)
       [] c = LSHBRAC -> regatomNode(regnode(Advance(st), WORDSTART), WORST)
       [] c = RSHBRAC -> regatomNode(regnode(Advance(st), WORDEND), WORST)
       [] c = LSQBRAC -> regclass(Advance(st))
       [] c = LBRAC -> regatomParen(reg(Advance(st), TRUE))
       [] c = 0 \/ c = OR_OP \/ c = RBRAC -> Fail(Advance(st), "internal urp")
       [] c = ASTERIX -> Fail(Advance(st), "* follows nothing")
       [] c = PLUSS -> Fail(Advance(st), "+ follows nothing")
       [] c = QMARK -> Fail(Advance(st), "? follows nothing")
       [] OTHER -> regliteral(st)

\* regpiece lines 557-582: the code emitted for the operator op after atom ret
regpieceEmit(st, op, ret, flags) ==
  IF op = ASTERIX /\ HasFlag(flags, SIMPLE) THEN reginsert(st, STAR, ret)
  ELSE IF op = ASTERIX THEN
    LET s1 == reginsert(st, BRANCH, ret)
        n1 == regnode(s1, BACK)
        s2 == regoptail(n1.st, ret, n1.ret)
        s3 == regoptail(s2, ret, ret)
        n2 == regnode(s3, BRANCH)
        s4 == regtail(n2.st, ret, n2.ret)
        n3 == regnode(s4, NOTHING)
    IN regtail(n3.st, ret, n3.ret)
  ELSE IF op = PLUSS /\ HasFlag(flags, SIMPLE) THEN reginsert(st, PLUS, ret)
  ELSE IF op = PLUSS THEN
    LET nxt == regnode(st, BRANCH)
        s1 == regtail(nxt.st, ret, nxt.ret)
        n2 == regnode(s1, BACK)
        s2 == regtail(n2.st, n2.ret, ret)
        n3 == regnode(s2, BRANCH)
        s3 == regtail(n3.st, nxt.ret, n3.ret)
        n4 == regnode(s3, NOTHING)
    IN regtail(n4.st, ret, n4.ret)
  ELSE IF op = QMARK THEN
    LET s1 == reginsert(st, BRANCH, ret)
        n1 == regnode(s1, BRANCH)
        s2 == regtail(n1.st, ret, n1.ret)
        nxt == regnode(s2, NOTHING)
        s3 == regtail(nxt.st, ret, nxt.ret)
    IN regoptail(s3, ret, nxt.ret)
  ELSE st

\* regpiece lines 583-588: st past the operator op
regpieceEnd(st, ret, op) ==
  IF ISMULT(Tok(st)) THEN Fail(st, "nested *?+")
  ELSE [st |-> st, ret |-> ret,
        flags |-> IF op # PLUSS THEN WORST + SPSTART ELSE WORST + HASWIDTH]

\* regpieceOp without the test of lines 552-554 that the operand of * and +
\* cannot match the empty string
regpieceOpAnyOperand(a) ==
  IF a.ret = NULLP THEN a
  ELSE IF ~ISMULT(Tok(a.st)) THEN a
  ELSE regpieceEnd(Advance(regpieceEmit(a.st, Tok(a.st), a.ret, a.flags)),
                   a.ret, Tok(a.st))

\* regpiece lines 543-582: a the atom regatom returned
regpieceOp(a) ==
  IF a.ret = NULLP THEN a
  ELSE IF ~ISMULT(Tok(a.st)) THEN a
  ELSE IF ~HasFlag(a.flags, HASWIDTH) /\ Tok(a.st) # QMARK
    THEN Fail(a.st, "*+ operand could be empty")
  ELSE regpieceEnd(Advance(regpieceEmit(a.st, Tok(a.st), a.ret, a.flags)),
                   a.ret, Tok(a.st))

regpiece(st) == regpieceOp(regatom(st))

\* regbranch lines 509-518: latest the piece regpiece returned
regbranchPiece(latest, chain, flagp) ==
  IF latest.ret = NULLP
    THEN [st |-> latest.st, chain |-> chain, flags |-> flagp, ok |-> FALSE]
  ELSE regbranchPieces(
         IF chain = NULLP THEN latest.st ELSE regtail(latest.st, chain, latest.ret),
         latest.ret,
         FlagOr(flagp, FlagAnd(latest.flags,
                               IF chain = NULLP THEN HASWIDTH + SPSTART ELSE HASWIDTH)))

\* regbranch lines 507-519: the pieces of one alternative
regbranchPieces(st, chain, flagp) ==
  IF Tok(st) # 0 /\ Tok(st) # OR_OP /\ Tok(st) # RBRAC
    THEN regbranchPiece(regpiece(st), chain, flagp)
  ELSE [st |-> st, chain |-> chain, flags |-> flagp, ok |-> TRUE]

\* regbranch lines 520-524: l what the loop over the pieces left
regbranchEnd(l, ret) ==
  IF ~l.ok THEN [st |-> l.st, ret |-> NULLP, flags |-> WORST]
  ELSE [st |-> IF l.chain = NULLP THEN regnode(l.st, NOTHING).st ELSE l.st,
        ret |-> ret, flags |-> l.flags]

regbranch(st) ==
  regbranchEnd(regbranchPieces(regnode(st, BRANCH).st, NULLP, WORST),
               regnode(st, BRANCH).ret)

\* reg lines 459-466: br the alternative regbranch returned
regAlternative(br, ret, flagp) ==
  IF br.ret = NULLP THEN [st |-> br.st, flags |-> flagp, ok |-> FALSE]
  ELSE regAlternatives(
         regtail(br.st, ret, br.ret), ret,
         FlagOr(IF ~HasFlag(br.flags, HASWIDTH) THEN FlagClear(flagp, HASWIDTH) ELSE flagp,
                FlagAnd(br.flags, SPSTART)))

\* reg lines 456-467: the alternatives after the first
regAlternatives(st, ret, flagp) ==
  IF Tok(st) = OR_OP THEN regAlternative(regbranch(Advance(st)), ret, flagp)
  ELSE [st |-> st, flags |-> flagp, ok |-> TRUE]

\* reg lines 474-476: hook the tails of the branches to the closing node
regHookTails(st, br, ender) ==
  IF br = NULLP THEN st
  ELSE LET s1 == regoptail(st, br, ender)
       IN regHookTails(s1, regnext(s1.code, br), ender)

\* reg lines 478-489: check for proper termination
regEnd(st, ret, flags, paren) ==
  IF paren /\ Tok(st) # RBRAC THEN Fail(Advance(st), "unmatched ()")
  ELSE IF ~paren /\ Tok(st) # 0
    THEN IF Tok(st) = RBRAC THEN Fail(st, "unmatched ()") ELSE Fail(st, "junk on end")
  ELSE [st |-> IF paren THEN Advance(st) ELSE st, ret |-> ret, flags |-> flags]

\* reg lines 469-476: ender the closing node, hooked on the end
regClose(ender, ret, flags, paren) ==
  regEnd(regHookTails(regtail(ender.st, ret, ender.ret), ret, ender.ret),
         ret, flags, paren)

\* reg lines 456-471: alts what the loop over the alternatives left
regTail(alts, ret, paren, parno) ==
  IF ~alts.ok THEN [st |-> alts.st, ret |-> NULLP, flags |-> WORST]
  ELSE regClose(regnode(alts.st, IF paren THEN CLOSE + parno ELSE END),
                ret, alts.flags, paren)

\* reg lines 443-455: br the first alternative, open the OPEN node or NULLP
regFirst(br, open, paren, parno) ==
  IF br.ret = NULLP THEN [st |-> br.st, ret |-> NULLP, flags |-> WORST]
  ELSE regTail(
         regAlternatives(
           IF open # NULLP THEN regtail(br.st, open, br.ret) ELSE br.st,
           IF open # NULLP THEN open ELSE br.ret,
           FlagOr(IF ~HasFlag(br.flags, HASWIDTH) THEN WORST ELSE HASWIDTH,
                  FlagAnd(br.flags, SPSTART))),
         IF open # NULLP THEN open ELSE br.ret, paren, parno)

\* reg that takes one group more: regnpar > NSUBEXP at line 431
regOneGroupMore(st, paren) ==
  IF paren /\ st.regnpar > NSUBEXP THEN Fail(st, "too many ()")
  ELSE IF paren
    THEN regFirst(regbranch(regnode([st EXCEPT !.regnpar = @ + 1], OPEN + st.regnpar).st),
                  regnode([st EXCEPT !.regnpar = @ + 1], OPEN + st.regnpar).ret,
                  paren, st.regnpar)
  ELSE regFirst(regbranch(st), NULLP, paren, 0)

reg(st, paren) ==
  IF paren /\ st.regnpar >= NSUBEXP THEN Fail(st, "too many ()")
  ELSE IF paren
    THEN regFirst(regbranch(regnode([st EXCEPT !.regnpar = @ + 1], OPEN + st.regnpar).st),
                  regnode([st EXCEPT !.regnpar = @ + 1], OPEN + st.regnpar).ret,
                  paren, st.regnpar)
  ELSE regFirst(regbranch(st), NULLP, paren, 0)

-----------------------------------------------------------------------------
(* regcomp: the two passes and the optimization hints, lines 331-409.      *)

\* the pointer-storage limit of regcomp line 343
MaxProgram == 32767

\* The work variables of regcomp, lines 213-220, as one record: regparse
\* is an index into the token buffer exp2 it points into, regcode is the
\* program emitted so far (emit) or &regdummy (~emit); err is the message
\* the call in progress has handed to regerror.  NoWork is their value in
\* a process that has not called regcomp yet (zero-initialized statics).
NoWork ==
  [exp2 |-> << >>, regparse |-> NULLP, regnpar |-> 0, code |-> << >>,
   emit |-> TRUE, regsize |-> 0, err |-> ""]

\* regcompFirst without line 333: regnpar keeps the value the call before
\* left in it
regcompFirstKeepNpar(g, exp2) ==
  [g EXCEPT !.exp2 = exp2, !.regparse = 1, !.regsize = 0,
            !.emit = FALSE, !.code = << >>, !.err = ""]

\* regcomp lines 332-335: the work variables g as the first pass finds them
regcompFirst(g, exp2) ==
  [g EXCEPT !.exp2 = exp2, !.regparse = 1, !.regnpar = 1, !.regsize = 0,
            !.emit = FALSE, !.code = << >>, !.err = ""]

\* regcomp lines 353-355: the work variables g as the second pass finds them
regcompSecond(g, exp2) ==
  [g EXCEPT !.exp2 = exp2, !.regparse = 1, !.regnpar = 1,
            !.emit = TRUE, !.code = << >>]

RECURSIVE regLongestEarlier(_, _, _, _), regLongest(_, _, _, _)

\* regLongest that resolves ties in favour of the earlier string: tlen > len
regLongestEarlier(code, scan, longest, len) ==
  IF scan = NULLP THEN [regmust |-> longest, regmlen |-> len]
  ELSE LET tmp == OPERAND(scan)
           tlen == Len(CStr(code, tmp))
       IN IF OP(code, scan) = EXACTLY /\ tlen > len
            THEN regLongestEarlier(code, regnext(code, scan), tmp, tlen)
          ELSE regLongestEarlier(code, regnext(code, scan), longest, len)

\* regcomp lines 392-404: the longest EXACTLY operand on the chain from scan
regLongest(code, scan, longest, len) ==
  IF scan = NULLP THEN [regmust |-> longest, regmlen |-> len]
  ELSE LET tmp == OPERAND(scan)
           tlen == Len(CStr(code, tmp))
       IN IF OP(code, scan) = EXACTLY /\ tlen >= len
            THEN regLongest(code, regnext(code, scan), tmp, tlen)
          ELSE regLongest(code, regnext(code, scan), longest, len)

\* regcompHints without the test of line 373 that the pattern is a single
\* top-level alternative
regcompHintsAnyBranch(code, flags) ==
  LET scan == OPERAND(2)
      must == IF HasFlag(flags, SPSTART)
                THEN regLongest(code, scan, NULLP, 0)
              ELSE [regmust |-> NULLP, regmlen |-> 0]
  IN [regstart |-> IF OP(code, scan) = EXACTLY THEN code[OPERAND(scan)] ELSE 0,
      reganch |-> IF OP(code, scan) = BOL THEN 1 ELSE 0,
      regmust |-> must.regmust,
      regmlen |-> must.regmlen]

\* regcomp lines 367-406
regcompHints(code, flags) ==
  LET single == OP(code, regnext(code, 2)) = END
      scan == OPERAND(2)
      must == IF single /\ HasFlag(flags, SPSTART)
                THEN regLongest(code, scan, NULLP, 0)
              ELSE [regmust |-> NULLP, regmlen |-> 0]
  IN [regstart |-> IF single /\ OP(code, scan) = EXACTLY
                     THEN code[OPERAND(scan)] ELSE 0,
      reganch |-> IF single /\ OP(code, scan) = BOL THEN 1 ELSE 0,
      regmust |-> must.regmust,
      regmlen |-> must.regmlen]

NoProgram(err) ==
  [ok |-> FALSE, err |-> err, program |-> << >>, regsize |-> 0,
   regstart |-> 0, reganch |-> 0, regmust |-> NULLP, regmlen |-> 0]

\* What one regcomp call did with its two allocations and with regerror:
\* how often exp2 ("regcomp: 1") and r ("regcomp: 2") were allocated and
\* handed to FREE, and the message regerror got, "" when it was not called.
Ledger(exp2freed, rmade, rfreed, msg) ==
  [exp2made |-> 1, exp2freed |-> exp2freed, rmade |-> rmade, rfreed |-> rfreed,
   regerror |-> msg]

NoLedger ==
  [exp2made |-> 0, exp2freed |-> 0, rmade |-> 0, rfreed |-> 0, regerror |-> ""]

\* a regcomp call seen from outside: r what it returned, work the work
\* variables as it left them, mem its ledger
Outcome(r, work, mem) == [r |-> r, work |-> work, mem |-> mem]

\* regcomp lines 357-409: p2 what the second pass returned
regcompFinish(p2) ==
  IF p2.ret = NULLP
    THEN Outcome(NoProgram(p2.st.err), p2.st, Ledger(1, 1, 1, p2.st.err))
  ELSE Outcome([ok |-> TRUE, err |-> "", program |-> p2.st.code,
                regsize |-> p2.st.regsize,
                regstart |-> regcompHints(p2.st.code, p2.flags).regstart,
                reganch |-> regcompHints(p2.st.code, p2.flags).reganch,
                regmust |-> regcompHints(p2.st.code, p2.flags).regmust,
                regmlen |-> regcompHints(p2.st.code, p2.flags).regmlen],
               p2.st, Ledger(1, 1, 0, ""))

\* regcompPass2 that returns at once when there is no space for r, and so
\* without FREE(exp2)
regcompPass2Leaky(exp2, p1, space) ==
  IF p1.ret = NULLP
    THEN Outcome(NoProgram(p1.st.err), p1.st, Ledger(1, 0, 0, p1.st.err))
  ELSE IF p1.st.regsize >= MaxProgram
    THEN Outcome(NoProgram("regexp too big"), p1.st,
                 Ledger(1, 0, 0, "regexp too big"))
  ELSE IF ~space
    THEN Outcome(NoProgram("out of space"), p1.st, Ledger(0, 0, 0, "out of space"))
  ELSE regcompFinish(reg(regc(regcompSecond(p1.st, exp2), MAGIC), FALSE))

\* regcomp lines 337-357: p1 what the first pass returned, space whether
\* the allocation of r succeeds
regcompPass2(exp2, p1, space) ==
  IF p1.ret = NULLP
    THEN Outcome(NoProgram(p1.st.err), p1.st, Ledger(1, 0, 0, p1.st.err))
  ELSE IF p1.st.regsize >= MaxProgram
    THEN Outcome(NoProgram("regexp too big"), p1.st,
                 Ledger(1, 0, 0, "regexp too big"))
  ELSE IF ~space
    THEN Outcome(NoProgram("out of space"), p1.st, Ledger(1, 0, 0, "out of space"))
  ELSE regcompFinish(reg(regc(regcompSecond(p1.st, exp2), MAGIC), FALSE))

\* regcomp lines 276-337: t the token stream of the preprocessor, g the
\* work variables as the call finds them
regcompPass1(g, t, space) ==
  IF t.err # "" THEN Outcome(NoProgram(t.err), g, Ledger(1, 0, 0, t.err))
  ELSE regcompPass2(t.exp2, reg(regc(regcompFirst(g, t.exp2), MAGIC), FALSE), space)

\* regcomp(exp, excompat) called with the work variables g
regcompFrom(g, exp, excompat, space) ==
  regcompPass1(g, Tokenize(exp, excompat, 1, << >>), space)

\* regcomp(exp, excompat) in a process that has not compiled before and
\* has memory: what it returns
regcomp(exp, excompat) == regcompFrom(NoWork, exp, excompat, TRUE).r

-----------------------------------------------------------------------------
(* The matcher.  regmatch recurses on the C stack; the model keeps that    *)
(* stack as a sequence of frames, one per active regmatch call.  A frame   *)
(* holds the call's current node scan, the place pc the call is at ("run": *)
(* at the top of its while loop; "open", "close", "branch", "starwait":    *)
(* inside that case, waiting for the regmatch call it made; "starloop":    *)
(* at the test of the STAR/PLUS while loop) and the locals save, no,       *)
(* minimum and nextch of that case.                                        *)

NONE == -1

Frame(scan) ==
  [scan |-> scan, pc |-> "run", save |-> 0, no |-> 0, minimum |-> 0, nextch |-> 0]

\* strchr(str + s, c): the first offset >= s holding c, NOPTR when none
RECURSIVE strchr(_, _, _)
strchr(str, s, c) ==
  IF CharAt(str, s) = c THEN s
  ELSE IF s >= Len(str) THEN NOPTR
  ELSE strchr(str, s + 1, c)

\* strncmp(str + s, opnd, len) == 0, opnd a NUL-free string of length >= len
strncmpEq(str, s, opnd, len) ==
  \A j \in 1..len : CharAt(str, s + j - 1) = opnd[j]

\* regrepeat lines 1155-1181: how many times the simple node p matches at scan
RECURSIVE regrepeatRun(_, _, _, _)
regrepeatRun(code, str, p, scan) ==
  LET c == CharAt(str, scan)
      opnd == CStr(code, OPERAND(p))
      more == CASE OP(code, p) = EXACTLY -> code[OPERAND(p)] = c /\ c # 0
                [] OP(code, p) = ANYOF -> c # 0 /\ InStr(code, OPERAND(p), c)
                [] OP(code, p) = ANYBUT -> c # 0 /\ ~InStr(code, OPERAND(p), c)
                [] OTHER -> FALSE
  IN IF more THEN 1 + regrepeatRun(code, str, p, scan + 1) ELSE 0

regrepeat(code, str, p, input) ==
  IF OP(code, p) = ANY THEN Len(str) - input
  ELSE regrepeatRun(code, str, p, input)

\* The machine state m of one regtry: the frames, the work variable
\* reginput, the value a returning regmatch call hands to its caller
\* (NONE while no call is returning) and the two capture tables; for the
\* properties, retfrom is the frame of the call that returned last and
\* okpath the frames that were active when END was reached.

Top(m) == m.stack[Len(m.stack)]

\* return (v) from the innermost regmatch call
Return(m, v) ==
  [m EXCEPT !.stack = SubSeq(@, 1, Len(@) - 1), !.retval = v, !.retfrom = Top(m)]

\* the innermost call goes on as frame f
Continue(m, f) ==
  [m EXCEPT !.stack = [@ EXCEPT ![Len(@)] = f], !.retval = NONE]

\* the innermost call, now frame f, calls regmatch(prog)
Call(m, f, prog) ==
  [m EXCEPT !.stack = Append([@ EXCEPT ![Len(@)] = f], Frame(prog)), !.retval = NONE]

\* regmatch lines 953-1133: one trip of the while loop at node f.scan
regmatchNode(m, code, str, regbol) ==
  LET f == Top(m)
      scan == f.scan
      nxt == regnext(code, scan)
      op == OP(code, scan)
      c == CharAt(str, m.reginput)
      prev == CharAt(str, m.reginput - 1)
      opnd == CStr(code, OPERAND(scan))
      Go(input) == Continue([m EXCEPT !.reginput = input], [f EXCEPT !.scan = nxt])
  IN CASE op = BOL -> IF m.reginput # regbol THEN Return(m, 0) ELSE Go(m.reginput)
       [] op = EOL -> IF c # 0 THEN Return(m, 0) ELSE Go(m.reginput)
       [] op = ANY -> IF c = 0 THEN Return(m, 0) ELSE Go(m.reginput + 1)
       [] op = WORDSTART ->
            IF m.reginput = regbol THEN Go(m.reginput)
            ELSE IF c = 0 \/ ISWORDPART(prev) \/ ~ISWORDPART(c) THEN Return(m, 0)
            ELSE Go(m.reginput)
       [] op = WORDEND ->
            IF c = 0 THEN Go(m.reginput)
            ELSE IF m.reginput = regbol \/ ~ISWORDPART(prev) \/ ISWORDPART(c)
              THEN Return(m, 0)
            ELSE Go(m.reginput)
       [] op = EXACTLY ->
            IF opnd[1] # c THEN Return(m, 0)
            ELSE IF Len(opnd) > 1 /\ ~strncmpEq(str, m.reginput, opnd, Len(opnd))
              THEN Return(m, 0)
            ELSE Go(m.reginput + Len(opnd))
       [] op = ANYOF ->
            IF c = 0 \/ ~InStr(code, OPERAND(scan), c) THEN Return(m, 0)
            ELSE Go(m.reginput + 1)
       [] op = ANYBUT ->
            IF c = 0 \/ InStr(code, OPERAND(scan), c) THEN Return(m, 0)
            ELSE Go(m.reginput + 1)
       [] op = NOTHING -> Go(m.reginput)
       [] op = BACK -> Go(m.reginput)
       [] op > OPEN /\ op < OPEN + NSUBEXP ->
            Call(m, [f EXCEPT !.pc = "open", !.save = m.reginput], nxt)
       [] op > CLOSE /\ op < CLOSE + NSUBEXP ->
            Call(m, [f EXCEPT !.pc = "close", !.save = m.reginput], nxt)
       [] op = BRANCH ->
            IF OP(code, nxt) # BRANCH
              THEN Continue(m, [f EXCEPT !.scan = OPERAND(scan)])
            ELSE Call(m, [f EXCEPT !.pc = "branch", !.save = m.reginput], OPERAND(scan))
       [] op = STAR \/ op = PLUS ->
            LET no == regrepeat(code, str, OPERAND(scan), m.reginput)
            IN Continue([m EXCEPT !.reginput = @ + no],
                        [f EXCEPT !.pc = "starloop", !.save = m.reginput, !.no = no,
                                  !.minimum = IF op = STAR THEN 0 ELSE 1,
                                  !.nextch = IF OP(code, nxt) = EXACTLY
                                               THEN code[OPERAND(nxt)] ELSE 0])
       [] op = END -> [Return(m, 1) EXCEPT !.okpath = m.stack]
       [] OTHER -> Return(m, 0)

\* regmatchStarLoop that gives up when the lookahead fails, where lines
\* 1118-1120 back up by one and try again
regmatchStarLoopGiveUp(m, code, str) ==
  LET f == Top(m)
  IN IF f.no >= f.minimum
       THEN IF f.nextch = 0 \/ CharAt(str, m.reginput) = f.nextch
              THEN Call(m, [f EXCEPT !.pc = "starwait"], regnext(code, f.scan))
            ELSE Return(m, 0)
     ELSE Return(m, 0)

\* regmatch lines 1111-1122: the test of the STAR/PLUS while loop
regmatchStarLoop(m, code, str) ==
  LET f == Top(m)
  IN IF f.no >= f.minimum
       THEN IF f.nextch = 0 \/ CharAt(str, m.reginput) = f.nextch
              THEN Call(m, [f EXCEPT !.pc = "starwait"], regnext(code, f.scan))
            ELSE Continue([m EXCEPT !.reginput = f.save + (f.no - 1)],
                          [f EXCEPT !.no = @ - 1])
     ELSE Return(m, 0)

\* regmatchResume without the test of line 1039 only: an outer passage
\* through an opening parenthesis overwrites startp, endp keeps the value
\* of the deepest passage
regmatchResumeOpenOverwrite(m, code) ==
  LET f == Top(m)
      no == IF f.pc = "open" THEN OP(code, f.scan) - OPEN ELSE OP(code, f.scan) - CLOSE
      sib == regnext(code, f.scan)
  IN CASE f.pc = "open" ->
            IF m.retval = 1 THEN Return([m EXCEPT !.startp[no] = f.save], 1)
            ELSE Return(m, 0)
       [] f.pc = "close" ->
            IF m.retval = 1
              THEN Return([m EXCEPT !.endp[no] = IF @ = NOPTR THEN f.save ELSE @], 1)
            ELSE Return(m, 0)
       [] f.pc = "branch" ->
            IF m.retval = 1 THEN Return(m, 1)
            ELSE IF sib # NULLP /\ OP(code, sib) = BRANCH
              THEN Call([m EXCEPT !.reginput = f.save], [f EXCEPT !.scan = sib],
                        OPERAND(sib))
            ELSE Return([m EXCEPT !.reginput = f.save], 0)
       [] f.pc = "starwait" ->
            IF m.retval = 1 THEN Return(m, 1)
            ELSE Continue([m EXCEPT !.reginput = f.save + (f.no - 1)],
                          [f EXCEPT !.pc = "starloop", !.no = @ - 1])

\* regmatchResume without the tests of lines 1039 and 1067: an outer
\* passage through the same parentheses overwrites the slot
regmatchResumeOverwrite(m, code) ==
  LET f == Top(m)
      no == IF f.pc = "open" THEN OP(code, f.scan) - OPEN ELSE OP(code, f.scan) - CLOSE
      sib == regnext(code, f.scan)
  IN CASE f.pc = "open" ->
            IF m.retval = 1 THEN Return([m EXCEPT !.startp[no] = f.save], 1)
            ELSE Return(m, 0)
       [] f.pc = "close" ->
            IF m.retval = 1 THEN Return([m EXCEPT !.endp[no] = f.save], 1)
            ELSE Return(m, 0)
       [] f.pc = "branch" ->
            IF m.retval = 1 THEN Return(m, 1)
            ELSE IF sib # NULLP /\ OP(code, sib) = BRANCH
              THEN Call([m EXCEPT !.reginput = f.save], [f EXCEPT !.scan = sib],
                        OPERAND(sib))
            ELSE Return([m EXCEPT !.reginput = f.save], 0)
       [] f.pc = "starwait" ->
            IF m.retval = 1 THEN Return(m, 1)
            ELSE Continue([m EXCEPT !.reginput = f.save + (f.no - 1)],
                          [f EXCEPT !.pc = "starloop", !.no = @ - 1])

\* regmatchResume that records a group whatever its callee returned: the
\* tests of lines 1034 and 1062 left out
regmatchResumeRecordAlways(m, code) ==
  LET f == Top(m)
      no == IF f.pc = "open" THEN OP(code, f.scan) - OPEN ELSE OP(code, f.scan) - CLOSE
      sib == regnext(code, f.scan)
  IN CASE f.pc = "open" ->
            Return([m EXCEPT !.startp[no] = IF @ = NOPTR THEN f.save ELSE @], m.retval)
       [] f.pc = "close" ->
            Return([m EXCEPT !.endp[no] = IF @ = NOPTR THEN f.save ELSE @], m.retval)
       [] f.pc = "branch" ->
            IF m.retval = 1 THEN Return(m, 1)
            ELSE IF sib # NULLP /\ OP(code, sib) = BRANCH
              THEN Call([m EXCEPT !.reginput = f.save], [f EXCEPT !.scan = sib],
                        OPERAND(sib))
            ELSE Return([m EXCEPT !.reginput = f.save], 0)
       [] f.pc = "starwait" ->
            IF m.retval = 1 THEN Return(m, 1)
            ELSE Continue([m EXCEPT !.reginput = f.save + (f.no - 1)],
                          [f EXCEPT !.pc = "starloop", !.no = @ - 1])

\* regmatchResume without the reginput = save of line 1087: the next
\* alternative starts where the failed one left the cursor
regmatchResumeNoRestore(m, code) ==
  LET f == Top(m)
      no == IF f.pc = "open" THEN OP(code, f.scan) - OPEN ELSE OP(code, f.scan) - CLOSE
      sib == regnext(code, f.scan)
  IN CASE f.pc = "open" ->
            IF m.retval = 1
              THEN Return([m EXCEPT !.startp[no] = IF @ = NOPTR THEN f.save ELSE @], 1)
            ELSE Return(m, 0)
       [] f.pc = "close" ->
            IF m.retval = 1
              THEN Return([m EXCEPT !.endp[no] = IF @ = NOPTR THEN f.save ELSE @], 1)
            ELSE Return(m, 0)
       [] f.pc = "branch" ->
            IF m.retval = 1 THEN Return(m, 1)
            ELSE IF sib # NULLP /\ OP(code, sib) = BRANCH
              THEN Call(m, [f EXCEPT !.scan = sib], OPERAND(sib))
            ELSE Return(m, 0)
       [] f.pc = "starwait" ->
            IF m.retval = 1 THEN Return(m, 1)
            ELSE Continue([m EXCEPT !.reginput = f.save + (f.no - 1)],
                          [f EXCEPT !.pc = "starloop", !.no = @ - 1])

\* regmatch lines 1034-1045, 1062-1073, 1083-1089, 1114-1120: the caller
\* frame takes the value m.retval its regmatch call returned
regmatchResume(m, code) ==
  LET f == Top(m)
      no == IF f.pc = "open" THEN OP(code, f.scan) - OPEN ELSE OP(code, f.scan) - CLOSE
      sib == regnext(code, f.scan)
  IN CASE f.pc = "open" ->
            IF m.retval = 1
              THEN Return([m EXCEPT !.startp[no] = IF @ = NOPTR THEN f.save ELSE @], 1)
            ELSE Return(m, 0)
       [] f.pc = "close" ->
            IF m.retval = 1
              THEN Return([m EXCEPT !.endp[no] = IF @ = NOPTR THEN f.save ELSE @], 1)
            ELSE Return(m, 0)
       [] f.pc = "branch" ->
            IF m.retval = 1 THEN Return(m, 1)
            ELSE IF sib # NULLP /\ OP(code, sib) = BRANCH
              THEN Call([m EXCEPT !.reginput = f.save], [f EXCEPT !.scan = sib],
                        OPERAND(sib))
            ELSE Return([m EXCEPT !.reginput = f.save], 0)
       [] f.pc = "starwait" ->
            IF m.retval = 1 THEN Return(m, 1)
            ELSE Continue([m EXCEPT !.reginput = f.save + (f.no - 1)],
                          [f EXCEPT !.pc = "starloop", !.no = @ - 1])

\* one step of the innermost regmatch call
regmatch(m, code, str, regbol) ==
  IF m.retval # NONE THEN regmatchResume(m, code)
  ELSE IF Top(m).pc = "starloop" THEN regmatchStarLoop(m, code, str)
  ELSE IF Top(m).scan = NULLP THEN Return(m, 0)
  ELSE regmatchNode(m, code, str, regbol)

NoCaptures == [k \in 0..(NSUBEXP - 1) |-> NOPTR]

\* regtry whose loop of lines 912-917 nulls startp only: what endp holds
\* is not determined
regtryStartOnly(string) ==
  [stack |-> << Frame(2) >>, reginput |-> string, retval |-> NONE,
   startp |-> NoCaptures, endp |-> [k \in 0..(NSUBEXP - 1) |-> UNINIT],
   okpath |-> << >>, retfrom |-> Frame(NULLP)]

\* regtry lines 908-918: up to the call regmatch(prog->program + 1)
regtry(string) ==
  [stack |-> << Frame(2) >>, reginput |-> string, retval |-> NONE,
   startp |-> NoCaptures, endp |-> NoCaptures, okpath |-> << >>,
   retfrom |-> Frame(NULLP)]

-----------------------------------------------------------------------------
(* regsub, lines 1347-1402.  source is the template without its NUL, sp    *)
(* and ep the capture tables prog->startp and prog->endp, str the string   *)
(* they point into, n the capacity of dest.  The work state w holds src    *)
(* (the index of the next template byte), dst (the bytes written to dest   *)
(* so far, dest[0] first: regsub writes dest in increasing order without   *)
(* gaps) and n (the capacity left).  The result holds the bytes written,   *)
(* the pointer returned as an offset from dest (NONE for the null          *)
(* pointer) and the message handed to regerror.                            *)

SrcAt(source, i) == IF i <= Len(source) THEN source[i] ELSE 0

regsubFail(w, m) == [dst |-> w.dst, ret |-> NONE, err |-> m]

\* regsubNo that does not know the ampersand: it is an ordinary character
regsubNoDigitsOnly(c, nx) ==
  IF c = chBsl /\ ch0 <= nx /\ nx <= ch9 THEN nx - ch0
  ELSE -1

\* lines 1365-1371: the slot the template byte c, followed by nx, stands for
regsubNo(c, nx) ==
  IF c = chAmp THEN 0
  ELSE IF c = chBsl /\ ch0 <= nx /\ nx <= ch9 THEN nx - ch0
  ELSE -1

\* regsubEnd without the test of line 1396: the terminator is written
\* whatever capacity is left
regsubEndUnchecked(w) ==
  [dst |-> Append(w.dst, 0), ret |-> Len(w.dst), err |-> ""]

\* lines 1396-1401: the terminator and the pointer returned
regsubEnd(w) ==
  IF w.n - 1 < 0 THEN regsubFail(w, "line too long")
  ELSE [dst |-> Append(w.dst, 0), ret |-> Len(w.dst), err |-> ""]

\* strncpy(dst, str + from, len)
strncpy(str, from, len) == [j \in 1..len |-> CharAt(str, from + j - 1)]

RECURSIVE regsubLoop(_, _, _, _, _)

\* lines 1373-1381: an ordinary character, escaped or not
regsubOrdinary(sp, ep, str, source, w) ==
  LET c == SrcAt(source, w.src)
      nx == SrcAt(source, w.src + 1)
      esc == c = chBsl /\ (nx = chBsl \/ nx = chAmp)
  IN IF w.n - 1 < 0 THEN regsubFail(w, "line too long")
     ELSE regsubLoop(sp, ep, str, source,
                     [src |-> IF esc THEN w.src + 2 ELSE w.src + 1,
                      dst |-> Append(w.dst, IF esc THEN nx ELSE c),
                      n |-> w.n - 1])

\* lines 1382-1394: the substring of slot no, src the index after the reference
regsubSlot(sp, ep, str, source, w, no, src) ==
  IF sp[no] # NOPTR /\ ep[no] # NOPTR
    THEN LET len == ep[no] - sp[no]
             copied == strncpy(str, sp[no], len)
         IN IF w.n - len < 0 THEN regsubFail(w, "line too long")
            ELSE IF len # 0 /\ copied[len] = 0
              THEN regsubFail([w EXCEPT !.dst = @ \o copied], "damaged match string")
            ELSE regsubLoop(sp, ep, str, source,
                            [src |-> src, dst |-> w.dst \o copied, n |-> w.n - len])
  ELSE regsubLoop(sp, ep, str, source, [w EXCEPT !.src = src])

\* lines 1364-1401: the loop over the template, then the terminator
regsubLoop(sp, ep, str, source, w) ==
  LET c == SrcAt(source, w.src)
      no == regsubNo(c, SrcAt(source, w.src + 1))
  IN IF c = 0 THEN regsubEnd(w)
     ELSE IF no < 0 THEN regsubOrdinary(sp, ep, str, source, w)
     ELSE regsubSlot(sp, ep, str, source, w, no,
                     IF c = chAmp THEN w.src + 1 ELSE w.src + 2)

regsub(r, sp, ep, str, source, n) ==
  IF r.program[1] # MAGIC
    THEN [dst |-> << >>, ret |-> NONE, err |-> "damaged regexp fed to regsub"]
  ELSE regsubLoop(sp, ep, str, source, [src |-> 1, dst |-> << >>, n |-> n])

-----------------------------------------------------------------------------
(* The inputs the model draws from.                                        *)

\* the longest pattern of the exhaustive part of the pattern universe
MaxPatLen == 2
\* the longest subject of the exhaustive part of the subject universe
MaxSubjLen == 2
\* the deepest regmatch recursion the model follows
MaxDepth == 60

PatAlphabet == {chA, chB, chLP, chRP, chStar, chPlus, chQm, chOr, chCaret, chDot}

SubjAlphabet == {chA, chB, chSp}

\* all strings over alphabet of length at most n
RECURSIVE Strings(_, _)
Strings(alphabet, n) ==
  IF n = 0 THEN {<< >>}
  ELSE LET shorter == Strings(alphabet, n - 1)
       IN shorter \cup {Append(w, c) : w \in shorter, c \in alphabet}

SeedPatterns ==
  { << chLP, chA, chRP, chLP, chB, chRP, chQm >>,            \* (a)(b)?
    << chA, chStar, chB >>,                                  \* a*b
    << chA, chPlus >>,                                       \* a+
    << chCaret, chA, chB >>,                                 \* ^ab
    << chA, chOr, chA, chB >>,                               \* a|ab
    << chLP, chA, chOr, chB, chRP, chStar, chA >>,           \* (a|b)*a
    << chLP, chA, chB, chRP, chPlus >>,                      \* (ab)+
    << chLP, chA, chStar, chRP, chStar >>,                   \* (a*)*
    << chB, chStar, chA, chB >>,                             \* b*ab
    << chDot, chStar, chB, chB >>,                           \* .*bb
    << chA, chQm, chA, chB, chDollar >>,                     \* a?ab$
    << chLsq, chA, chMinus, chB, chRsq, chPlus, chSp >>,     \* [a-b]+ followed by a space
    << chLsq, chCaret, chA, chMinus, chB, chRsq >>,          \* [^a-b]
    << chLsq, chB, chMinus, chA, chRsq >>,                   \* [b-a]
    << chBsl, chLt, chA >>,                                  \* \<a
    << chA, chBsl, chGt >>,                                  \* a\>
    << chBsl, chLt >>,                                       \* \<
    << chBsl, chGt >>,                                       \* \>
    << chBsl, chLt, chB, chPlus, chBsl, chGt >>,             \* \<b+\>
    << chLP, chLP, chA, chRP, chOr, chB, chRP, chPlus >>,    \* ((a)|b)+
    << chA, chStar, chLP, chB, chOr, chA, chB, chRP >> }     \* a*(b|ab)

\* the ends x and y of the ranges of the character classes [x-y], [^x-y]
ClassChars == {chSp, chDot, chA, chB, chD}

ClassOf(x, y) == << chLsq, x, chMinus, y, chRsq >>

ClassButOf(x, y) == << chLsq, chCaret, x, chMinus, y, chRsq >>

ClassPatterns ==
  {ClassOf(x, y) : x, y \in ClassChars} \cup {ClassButOf(x, y) : x, y \in ClassChars}

\* n empty groups in a row: ()()...()
Groups(n) == [i \in 1..(2 * n) |-> IF i % 2 = 1 THEN chLP ELSE chRP]

\* patterns with up to NSUBEXP + 1 groups, in a row and nested
GroupPatterns ==
  {Groups(n) : n \in 3..(NSUBEXP + 1)} \cup
  { << chLP, chLP, chA, chRP, chLP, chB, chRP, chRP, chLP, chA, chRP >>,
                                                             \* ((a)(b))(a)
    << chLP, chA, chLP, chB, chLP, chA, chRP, chRP, chRP, chLP, chB, chRP >>,
                                                             \* (a(b(a)))(b)
    << chLP, chLP, chLP, chLP, chLP, chLP, chLP, chA,
       chRP, chRP, chRP, chRP, chRP, chRP, chRP >> \o Groups(2),
                                                             \* (((((((a)))))))()()
    << chLP, chLP, chLP, chLP, chLP, chLP, chLP, chA,
       chRP, chRP, chRP, chRP, chRP, chRP, chRP >> \o Groups(3) }
                                                             \* the same and ()

\* patterns that repeat an operand that can match the empty string
EmptyRepeats ==
  { << chLP, chA, chStar, chRP, chStar >>,                   \* (a*)*
    << chLP, chA, chOr, chRP, chPlus >>,                     \* (a|)+
    << chCaret, chStar >>,                                   \* ^*
    << chLP, chA, chQm, chRP, chPlus >>,                     \* (a?)+
    << chLP, chRP, chStar >>,                                \* ()*
    << chLP, chLP, chA, chStar, chRP, chRP, chStar >>,       \* ((a*))*
    << chLP, chB, chOr, chLP, chA, chStar, chRP, chRP, chPlus >>,  \* (b|(a*))+
    << chBsl, chLt, chPlus >>,                               \* \<+
    << chDollar, chStar >> }                                 \* $*

\* patterns that make such an operand optional
EmptyOptionals ==
  { << chLP, chA, chStar, chRP, chQm >>,                     \* (a*)?
    << chLP, chA, chOr, chRP, chQm >>,                       \* (a|)?
    << chCaret, chQm >>,                                     \* ^?
    << chLP, chRP, chQm >> }                                 \* ()?

\* patterns with runs of ordinary characters
RunPatterns ==
  { << chA, chB, chC, chStar >>,                             \* abc*
    << chA, chB, chB, chStar >>,                             \* abb*
    << chA, chB, chC, chPlus >>,                             \* abc+
    << chA, chB, chC, chQm >>,                               \* abc?
    << chA, chB, chC >>,                                     \* abc
    << chA, chA, chB, chStar, chA, chB >>,                   \* aab*ab
    << chA, chBsl, chStar, chB, chStar >>,                   \* a\*b*
    << chA, chB, chOr, chA, chB, chQm >>,                    \* ab|ab?
    << chLP, chA, chB, chPlus, chRP, chB, chA >>,            \* (ab+)ba
    << chA, chB, chDot, chB, chA, chStar >>,                 \* ab.ba*
    << chA, chB, chLsq, chA, chRsq, chA, chB, chStar >> }    \* ab[a]ab*

\* patterns for the choice of regmust
MustPatterns ==
  { << chA, chPlus, chB >>,                                  \* a+b
    << chA, chStar, chB >>,                                  \* a*b
    << chA, chQm, chB >>,                                    \* a?b
    << chLP, chA, chStar, chRP, chB >>,                      \* (a*)b
    << chLP, chB, chOr, chA, chStar, chRP, chA, chB >>,      \* (b|a*)ab
    << chLP, chA, chPlus, chRP, chB >>,                      \* (a+)b
    << chLP, chA, chStar, chRP, chPlus, chB >>,              \* (a*)+b would be empty
    << chLP, chA, chQm, chB, chRP, chPlus, chB >>,           \* (a?b)+b
    << chA, chStar, chB, chLP, chA, chRP, chB >>,            \* a*b(a)b
    << chA, chStar, chA, chB, chLP, chB, chRP, chA >>,       \* a*ab(b)a
    << chA, chStar, chLP, chB, chRP >>,                      \* a*(b)
    << chA, chStar, chB, chOr, chB >>,                       \* a*b|b
    << chB, chA, chStar >>,                                  \* ba*
    << chLP, chA, chB, chRP, chStar, chB >>,                 \* (ab)*b
    << chDot, chStar >> }                                    \* .*

\* patterns with a group under a repeat operator
RepeatedGroupPatterns ==
  { << chLP, chA, chRP, chStar, chB >>,                      \* (a)*b
    << chLP, chA, chLP, chB, chRP, chQm, chRP, chPlus >>,    \* (a(b)?)+
    << chLP, chA, chOr, chA, chB, chRP, chStar, chB >>,      \* (a|ab)*b
    << chLP, chLP, chA, chRP, chPlus, chB, chRP, chStar >> } \* ((a)+b)*

Patterns ==
  Strings(PatAlphabet, MaxPatLen) \cup SeedPatterns \cup ClassPatterns
    \cup GroupPatterns \cup EmptyRepeats \cup EmptyOptionals \cup MustPatterns
    \cup RunPatterns \cup RepeatedGroupPatterns

SeedSubjects ==
  { << chA, chA, chA, chB >>,                                \* aaab
    << chB, chA, chA, chA >>,                                \* baaa
    << chA, chB, chB >>,                                     \* abb
    << chB, chA, chB >>,                                     \* bab
    << chA, chB, chA, chB >>,                                \* abab
    << chA, chUnder, chB >>,                                 \* a_b
    << chSp, chA, chB, chSp >>,                              \* " ab "
    << chB, chB, chSp, chA >> }                              \* "bb a"

Subjects == Strings(SubjAlphabet, MaxSubjLen) \cup SeedSubjects

\* the longest template of the exhaustive part of the template universe
MaxTplLen == 2
\* the largest capacity n of dest
MaxCap == 6

TplAlphabet == {chA, chAmp, chBsl, ch1, ch9}

SeedTemplates ==
  { << chAmp, chAmp, chAmp >>,                               \* &&&
    << chBsl, ch1, chAmp, chBsl, ch9, chBsl, chBsl, chBsl, chAmp, chA >>,  \* \1&\9\\\&a
    << chBsl, ch0, chBsl, ch2 >>,                            \* \0\2
    << chA, chBsl, chB, chBsl >> }                           \* a\b\

Templates == Strings(TplAlphabet, MaxTplLen) \cup SeedTemplates

\* the string the capture tables of a regsub call point into
SubString == << chA, chB, chC >>

\* the offset pairs start <= end of a substring of str
Substrings(str) == {se \in (0..Len(str)) \X (0..Len(str)) : se[1] <= se[2]}

\* the capture tables a successful regexec on SubString can leave: slot 0
\* set, the slots 1, 2 and 9 set or null, the others null
CaptureSets ==
  {[k \in 0..(NSUBEXP - 1) |->
      CASE k = 0 -> s0
        [] k = 1 -> s1
        [] k = 2 -> s2
        [] k = 9 -> s9
        [] OTHER -> << NOPTR, NOPTR >>] :
     s0 \in Substrings(SubString),
     s1 \in {<< 0, 1 >>, << 1, 1 >>, << 1, 3 >>, << NOPTR, NOPTR >>},
     s2 \in {<< 2, 3 >>, << NOPTR, NOPTR >>},
     s9 \in {<< 0, 1 >>, << NOPTR, NOPTR >>}}

-----------------------------------------------------------------------------
(* The state.                                                              *)

VARIABLES
  phase,      \* "idle": nothing compiled; "ready": between calls; "exec": inside regexec
  pattern,    \* the argument exp of the last regcomp call
  excompat,   \* its argument excompat
  prog,       \* what regcomp returned: the regexp r, or no program and the message
  subject,    \* the argument string of the last regexec call
  result,     \* what the last regexec call returned, NONE before it returns
  regbol,     \* the work variable regbol
  s,          \* the local s of regexec: where the current regtry started
  stack,      \* the frames of the active regmatch calls, innermost last
  reginput,   \* the work variable reginput
  retval,     \* the value a returning regmatch call hands over, else NONE
  startp,     \* prog->startp
  endp,       \* prog->endp
  okpath,     \* the frames that were active when regmatch last reached END
  retfrom,    \* the frame of the regmatch call that returned last
  sub,        \* the last regsub call: its arguments source and n, what it wrote
              \* to dest, what it returned and its message; called: there was one
  work,       \* the work variables regparse, regnpar, regcode and regsize
  mem,        \* the ledger of the last regcomp call
  calls,      \* two calls in progress at the same time: the locals of each
  regstartp   \* of these two, the one whose program's capture tables the
              \* work variables regstartp and regendp point to, 0 for none

vars == << phase, pattern, excompat, prog, subject, result, regbol, s,
           stack, reginput, retval, startp, endp, okpath, retfrom, sub,
           work, mem, calls, regstartp >>

\* the locals of a call that has not begun: the call op, where it is
\* (pc), the arguments exp and ex of regcomp with its token buffer exp2 and
\* what its first pass returned (ret1), the regexp r that regcomp returns
\* or regexec is given, with its capture tables, the arguments str of
\* regexec with its local s, the frames of its regmatch calls and the value
\* a returning one hands over, and what regexec returned (result)
NoCall ==
  [op |-> "none", pc |-> "idle", exp |-> << >>, ex |-> 0, exp2 |-> << >>,
   ret1 |-> NULLP, r |-> NoProgram(""), str |-> << >>, s |-> NOPTR,
   stack |-> << >>, retval |-> NONE, result |-> NONE,
   startp |-> [k \in 0..(NSUBEXP - 1) |-> UNINIT],
   endp |-> [k \in 0..(NSUBEXP - 1) |-> UNINIT]]

NoSub ==
  [called |-> FALSE, source |-> << >>, n |-> 0, dst |-> << >>, ret |-> NONE, err |-> ""]

Machine ==
  [stack |-> stack, reginput |-> reginput, retval |-> retval,
   startp |-> startp, endp |-> endp, okpath |-> okpath, retfrom |-> retfrom]

SetMachine(m) ==
  /\ stack' = m.stack
  /\ reginput' = m.reginput
  /\ retval' = m.retval
  /\ startp' = m.startp
  /\ endp' = m.endp
  /\ okpath' = m.okpath
  /\ retfrom' = m.retfrom

Init ==
  /\ phase = "idle"
  /\ pattern = << >>
  /\ excompat = 0
  /\ prog = NoProgram("")
  /\ subject = << >>
  /\ result = NONE
  /\ regbol = NOPTR
  /\ s = NOPTR
  /\ stack = << >>
  /\ reginput = NOPTR
  /\ retval = NONE
  /\ startp = [k \in 0..(NSUBEXP - 1) |-> UNINIT]
  /\ endp = [k \in 0..(NSUBEXP - 1) |-> UNINIT]
  /\ okpath = << >>
  /\ retfrom = Frame(NULLP)
  /\ sub = NoSub
  /\ work = NoWork
  /\ mem = NoLedger
  /\ calls = [i \in 1..2 |-> NoCall]
  /\ regstartp = 0

\* regcomp(exp, ex), lines 263-409, returns o.  The regexp it returns is
\* new memory, its capture tables are not written yet; what is recorded of
\* the calls on the regexp before is dropped; regbol and reginput stay.
RegcompReturns(exp, ex, o) ==
  /\ pattern' = exp
  /\ excompat' = ex
  /\ prog' = o.r
  /\ work' = o.work
  /\ mem' = o.mem
  /\ phase' = "ready"
  /\ subject' = << >>
  /\ result' = NONE
  /\ s' = NOPTR
  /\ startp' = [k \in 0..(NSUBEXP - 1) |-> UNINIT]
  /\ endp' = [k \in 0..(NSUBEXP - 1) |-> UNINIT]
  /\ okpath' = << >>
  /\ retfrom' = Frame(NULLP)
  /\ sub' = NoSub
  /\ UNCHANGED << regbol, stack, reginput, retval, calls, regstartp >>

\* the first regcomp(exp, ex) of the process, with memory for the program
RegcompCall(exp, ex) ==
  /\ phase = "idle"
  /\ RegcompReturns(exp, ex, regcompFrom(work, exp, ex, TRUE))

\* regcomp(exp, ex) at any time between two calls; space: the allocation
\* of the program, if it comes to it, succeeds
RegcompAgain(exp, ex, space) ==
  /\ phase \in {"idle", "ready"}
  /\ RegcompReturns(exp, ex, regcompFrom(work, exp, ex, space))

\* regexec lines 858-869: is the regmust string somewhere in str at or after s
RECURSIVE regmustFound(_, _, _)
regmustFound(str, must, from) ==
  LET t == strchr(str, from, must[1])
  IN IF t = NOPTR THEN FALSE
     ELSE IF strncmpEq(str, t, must, Len(must)) THEN TRUE
     ELSE IF t >= Len(str) THEN FALSE
     ELSE regmustFound(str, must, t + 1)

\* regexecFirst with strrchr in the place of strchr: the search for regstart
\* finds the last occurrence
regexecFirstLast(r, str) ==
  IF r.reganch # 0 THEN 0
  ELSE IF r.regstart # 0
    THEN IF \E i \in 0..(Len(str) - 1) : CharAt(str, i) = r.regstart
           THEN CHOOSE i \in 0..(Len(str) - 1) :
                  /\ CharAt(str, i) = r.regstart
                  /\ \A j \in (i + 1)..(Len(str) - 1) : CharAt(str, j) # r.regstart
         ELSE NOPTR
  ELSE 0

\* regexec lines 874-893: where the first regtry starts, NOPTR when nowhere
regexecFirst(r, str) ==
  IF r.reganch # 0 THEN 0
  ELSE IF r.regstart # 0 THEN strchr(str, 0, r.regstart)
  ELSE 0

\* regexecNext without the early return of lines 874-876: an anchored
\* pattern is tried at the later offsets too
regexecNextUnanchored(r, str, from) ==
  IF r.regstart # 0 THEN strchr(str, from + 1, r.regstart)
  ELSE IF CharAt(str, from) # 0 THEN from + 1
  ELSE NOPTR

\* regexec lines 874-897: where the regtry after a failed one at from starts
regexecNext(r, str, from) ==
  IF r.reganch # 0 THEN NOPTR
  ELSE IF r.regstart # 0 THEN strchr(str, from + 1, r.regstart)
  ELSE IF CharAt(str, from) # 0 THEN from + 1
  ELSE NOPTR

\* regexec(prog, str), lines 844-898, up to the first regmatch call
RegexecCall(str) ==
  /\ phase = "ready"
  /\ prog.ok
  /\ subject' = str
  /\ IF prog.program[1] # MAGIC
       \/ (prog.regmust # NULLP
           /\ ~regmustFound(str, SubSeq(CStr(prog.program, prog.regmust), 1, prog.regmlen), 0))
       THEN /\ result' = 0
            /\ UNCHANGED << phase, regbol, s, stack, reginput, retval, startp, endp,
                            okpath, retfrom >>
     ELSE /\ regbol' = 0
          /\ LET first == regexecFirst(prog, str)
             IN IF first = NOPTR
                  THEN /\ result' = 0
                       /\ UNCHANGED << phase, s, stack, reginput, retval, startp, endp,
                                       okpath, retfrom >>
                ELSE /\ result' = NONE
                     /\ phase' = "exec"
                     /\ s' = first
                     /\ SetMachine(regtry(first))
  /\ UNCHANGED << pattern, excompat, prog, sub, work, mem, calls, regstartp >>

\* one step of the innermost regmatch call, lines 937-1142
RegmatchStep ==
  /\ phase = "exec"
  /\ stack # << >>
  /\ Len(stack) <= MaxDepth
  /\ SetMachine(regmatch(Machine, prog.program, subject, regbol))
  /\ UNCHANGED << phase, pattern, excompat, prog, subject, result, regbol, s, sub,
                  work, mem, calls, regstartp >>

\* the outermost regmatch call has returned: regtry lines 918-924, then
\* regexec lines 875-897
RegtryReturn ==
  /\ phase = "exec"
  /\ stack = << >>
  /\ IF retval = 1
       THEN /\ startp' = [startp EXCEPT ![0] = s]
            /\ endp' = [endp EXCEPT ![0] = reginput]
            /\ result' = 1
            /\ phase' = "ready"
            /\ retval' = NONE
            /\ UNCHANGED << s, stack, reginput, okpath, retfrom >>
     ELSE LET nxt == regexecNext(prog, subject, s)
          IN IF nxt = NOPTR
               THEN /\ result' = 0
                    /\ phase' = "ready"
                    /\ retval' = NONE
                    /\ UNCHANGED << s, stack, reginput, startp, endp, okpath, retfrom >>
             ELSE /\ s' = nxt
                  /\ SetMachine(regtry(nxt))
                  /\ UNCHANGED << phase, result >>
  /\ UNCHANGED << pattern, excompat, prog, subject, regbol, sub, work, mem,
                  calls, regstartp >>

Next ==
  \/ \E exp \in Patterns : RegcompCall(exp, 0)
  \/ \E str \in Subjects : RegexecCall(str)
  \/ RegmatchStep
  \/ RegtryReturn

Spec == Init /\ [][Next]_vars

-----------------------------------------------------------------------------
(* regsub on its own: a compiled regexp whose capture tables hold what a   *)
(* successful regexec on SubString left, then one call of regsub.          *)

\* the state after the call regcomp(".*", 0) with the outcome o and a
\* regexec call that has filled the capture tables
InitSubAfter(o) ==
  /\ phase = "ready"
  /\ pattern = << chDot, chStar >>
  /\ excompat = 0
  /\ prog = o.r
  /\ work = o.work
  /\ mem = o.mem
  /\ subject = SubString
  /\ result = 1
  /\ regbol = 0
  /\ s = NOPTR
  /\ stack = << >>
  /\ reginput = NOPTR
  /\ retval = NONE
  /\ \E caps \in CaptureSets :
       /\ startp = [k \in 0..(NSUBEXP - 1) |-> caps[k][1]]
       /\ endp = [k \in 0..(NSUBEXP - 1) |-> caps[k][2]]
  /\ okpath = << >>
  /\ retfrom = Frame(NULLP)
  /\ sub = NoSub
  /\ calls = [i \in 1..2 |-> NoCall]
  /\ regstartp = 0

InitSub == InitSubAfter(regcompFrom(NoWork, << chDot, chStar >>, 0, TRUE))

\* regsub(prog, source, dest, n), lines 1347-1402
RegsubCall(source, n) ==
  /\ phase = "ready"
  /\ prog.ok
  /\ result = 1
  /\ ~sub.called
  /\ LET r == regsub(prog, startp, endp, subject, source, n)
     IN sub' = [called |-> TRUE, source |-> source, n |-> n,
                dst |-> r.dst, ret |-> r.ret, err |-> r.err]
  /\ UNCHANGED << phase, pattern, excompat, prog, subject, result, regbol, s,
                  stack, reginput, retval, startp, endp, okpath, retfrom,
                  work, mem, calls, regstartp >>

NextSub == \E source \in Templates, n \in 0..MaxCap : RegsubCall(source, n)

SpecSub == InitSub /\ [][NextSub]_vars

-----------------------------------------------------------------------------
(* A session: regcomp and regexec calls one after the other in one         *)
(* process, any number of them, so that each call finds the work variables *)
(* as the calls before left them.                                          *)

SeqPatterns ==
  { Groups(NSUBEXP),                                         \* ten groups
    << chStar, chA >>,                                       \* *a
    << chA, chRP >>,                                         \* a)
    << chLsq, chA >>,                                        \* [a
    << chRsq >>,                                             \* ]
    << chA, chBsl, chLbrace >>,                              \* a\{
    << >>,                                                   \* the empty pattern
    << chA >>,                                               \* a
    << chLP, chA, chRP, chLP, chB, chRP >>,                  \* (a)(b)
    << chLP, chA, chRP, chLP, chB >>,                        \* (a)(b
    << chLP, chLP, chA, chRP, chRP, chStar, chB >>,          \* ((a))*b
    << chA, chStar, chStar >>,                               \* a**
    << chA, chBsl >>,                                        \* a\
    << chBsl, chLP, chA, chBsl, chRP, chB >>,                \* \(a\)b
    << chLsq, chB, chMinus, chA, chRsq >>,                   \* [b-a]
    << chCaret, chA, chPlus, chB, chA >>,                    \* ^a+ba
    << chLP, chA, chStar, chRP, chStar >>,                   \* (a*)*
    << chB, chQm, chA, chOr, chA, chB >> }                   \* b?a|ab

SeqSubjects == { << >>, << chA, chB >>, << chB, chA, chB >> }

NextSeq ==
  \/ \E exp \in SeqPatterns, ex \in {0, 1}, space \in BOOLEAN :
       RegcompAgain(exp, ex, space)
  \/ \E str \in SeqSubjects : RegexecCall(str)
  \/ RegmatchStep
  \/ RegtryReturn

SpecSeq == Init /\ [][NextSeq]_vars

-----------------------------------------------------------------------------
(* regcomp with either value of excompat, on patterns with plain and with  *)
(* escaped parentheses.                                                    *)

DualAlphabet == {chA, chLP, chRP, chBsl, chOr}

\* the longest pattern of the exhaustive part of this pattern universe
MaxDualLen == 3

DualSeeds ==
  { << chBsl, chLP, chA, chBsl, chRP, chStar, chB >>,        \* \(a\)*b
    << chLP, chA, chRP, chStar, chB >>,                      \* (a)*b
    << chLP, chBsl, chLP, chA, chBsl, chRP, chRP >>,         \* (\(a\))
    << chBsl, chBsl, chLP, chA, chRP >>,                     \* \\(a)
    << chLsq, chLP, chRsq, chBsl, chLP >>,                   \* [(]\(
    << chA, chBsl, chLbrace >>,                              \* a\{
    << chLP, chA, chBsl >> }                                 \* (a\

DualPatterns == Strings(DualAlphabet, MaxDualLen) \cup DualSeeds

NextDual == \E exp \in DualPatterns, ex \in {0, 1} : RegcompCall(exp, ex)

SpecDual == Init /\ [][NextDual]_vars

-----------------------------------------------------------------------------
(* Two calls in progress at the same time.  Each call i has its locals     *)
(* calls[i]: its arguments, its token buffer, its regexp and the frames of *)
(* its regmatch calls.  The work variables are the statics of lines        *)
(* 213-220 and 822-825, one copy for the process: work (regparse, regnpar, *)
(* regcode, regsize), reginput, regbol, regstartp and regendp.  A regcomp  *)
(* call is two steps, its first pass and the rest; a regexec call is the   *)
(* steps of its regmatch calls.  The two regexec calls are given the same  *)
(* string, so that a pointer into the subject is an offset whichever call  *)
(* has set it.                                                             *)

SharedCompiles ==
  { << chA >>,                                               \* a
    << chLP, chA, chRP, chLP, chB, chRP >>,                  \* (a)(b)
    << chA, chStar, chB >>,                                  \* a*b
    << chLP, chA >> }                                        \* (a

SharedPrograms ==
  { << chLP, chA, chRP, chB >>,                              \* (a)b
    << chA, chStar, chB >>,                                  \* a*b
    << chB, chOr, chA, chB >> }                              \* b|ab

SharedString == << chA, chA, chB >>

\* the regexps the regexec calls are given, compiled beforehand
SharedRegexps == [exp \in SharedPrograms |-> regcomp(exp, 0)]

\* the machine of call i: its frames, the work variables and the capture
\* tables regstartp and regendp point to
CallMachine(i) ==
  [stack |-> calls[i].stack, reginput |-> reginput, retval |-> calls[i].retval,
   startp |-> calls[regstartp].startp, endp |-> calls[regstartp].endp,
   okpath |-> << >>, retfrom |-> Frame(NULLP)]

\* call i, its locals now c, has brought the machine to m while regstartp
\* and regendp pointed to the tables of call tp
PutMachine(i, c, m, tp) ==
  /\ reginput' = m.reginput
  /\ calls' = [j \in 1..2 |->
                 LET b == IF j = i THEN [c EXCEPT !.stack = m.stack, !.retval = m.retval]
                          ELSE calls[j]
                 IN IF j = tp THEN [b EXCEPT !.startp = m.startp, !.endp = m.endp]
                    ELSE b]

\* call i begins regcomp(exp, ex): lines 276-340, the preprocessor, which
\* gave t, and the first pass, which gave p1
SharedRegcompBegun(i, c, t, p1) ==
  IF t.err # ""
    THEN /\ calls' = [calls EXCEPT ![i] = [c EXCEPT !.pc = "done",
                                                    !.r = NoProgram(t.err)]]
         /\ UNCHANGED work
  ELSE IF p1.ret = NULLP
    THEN /\ calls' = [calls EXCEPT ![i] = [c EXCEPT !.pc = "done",
                                                    !.r = NoProgram(p1.st.err)]]
         /\ work' = p1.st
  ELSE /\ calls' = [calls EXCEPT ![i] = [c EXCEPT !.pc = "pass2",
                                                  !.exp2 = t.exp2,
                                                  !.ret1 = p1.ret]]
       /\ work' = p1.st

SharedRegcompPass1(i, c, t) ==
  SharedRegcompBegun(i, c, t, reg(regc(regcompFirst(work, t.exp2), MAGIC), FALSE))

SharedRegcompBegin(i, exp, ex) ==
  /\ calls[i].pc = "idle"
  /\ SharedRegcompPass1(i, [calls[i] EXCEPT !.op = "regcomp", !.exp = exp, !.ex = ex],
                        Tokenize(exp, ex, 1, << >>))
  /\ UNCHANGED << phase, pattern, excompat, prog, subject, result, regbol, s,
                  stack, reginput, retval, startp, endp, okpath, retfrom, sub,
                  mem, regstartp >>

\* call i goes on after its first pass: lines 342-409, with the outcome o.
\* The program is allocated with regsize bytes; when the second pass emits
\* more, it writes past the allocation, and the call either returns its
\* regexp all the same or the process is damaged (pc "overrun").
SharedRegcompEnded(i, o) ==
  /\ work' = o.work
  /\ \E damage \in BOOLEAN :
       /\ damage => o.r.ok /\ Len(o.r.program) > o.r.regsize
       /\ calls' = [calls EXCEPT ![i] =
                      [@ EXCEPT !.pc = IF damage THEN "overrun" ELSE "done",
                                !.r = o.r]]

SharedRegcompEnd(i) ==
  /\ calls[i].pc = "pass2"
  /\ SharedRegcompEnded(i, regcompPass2(calls[i].exp2,
                                        [st |-> work, ret |-> calls[i].ret1,
                                         flags |-> WORST], TRUE))
  /\ UNCHANGED << phase, pattern, excompat, prog, subject, result, regbol, s,
                  stack, reginput, retval, startp, endp, okpath, retfrom, sub,
                  mem, regstartp >>

\* call i, its locals now c, begins regexec(r, str): lines 844-898 up to
\* the first regmatch call, first the offset of the first regtry
SharedRegexecBegun(i, c, r, str, first) ==
  IF r.regmust # NULLP
     /\ ~regmustFound(str, SubSeq(CStr(r.program, r.regmust), 1, r.regmlen), 0)
    THEN /\ calls' = [calls EXCEPT ![i] = [c EXCEPT !.pc = "done", !.result = 0]]
         /\ UNCHANGED << regbol, reginput, regstartp >>
  ELSE IF first = NOPTR
    THEN /\ calls' = [calls EXCEPT ![i] = [c EXCEPT !.pc = "done", !.result = 0]]
         /\ regbol' = 0
         /\ UNCHANGED << reginput, regstartp >>
  ELSE /\ regbol' = 0
       /\ regstartp' = i
       /\ PutMachine(i, [c EXCEPT !.pc = "exec", !.s = first], regtry(first), i)

SharedRegexecOf(i, exp, r, str) ==
  SharedRegexecBegun(i, [calls[i] EXCEPT !.op = "regexec", !.exp = exp, !.r = r,
                                         !.str = str],
                     r, str, regexecFirst(r, str))

\* r the regexp of the pattern exp
SharedRegexecCall(i, exp) ==
  /\ calls[i].pc = "idle"
  /\ SharedRegexecOf(i, exp, SharedRegexps[exp], SharedString)
  /\ UNCHANGED << phase, pattern, excompat, prog, subject, result, s, stack,
                  retval, startp, endp, okpath, retfrom, sub, work, mem >>

\* one step of the innermost regmatch call of call i, lines 937-1142
SharedRegmatchStep(i) ==
  /\ calls[i].pc = "exec"
  /\ calls[i].stack # << >>
  /\ Len(calls[i].stack) <= MaxDepth
  /\ PutMachine(i, calls[i],
                regmatch(CallMachine(i), calls[i].r.program, calls[i].str, regbol),
                regstartp)
  /\ UNCHANGED << phase, pattern, excompat, prog, subject, result, regbol, s,
                  stack, retval, startp, endp, okpath, retfrom, sub, work, mem,
                  regstartp >>

\* the outermost regmatch call of call i has returned: regtry lines
\* 918-924, then regexec lines 875-897
SharedRegtryReturn(i) ==
  /\ calls[i].pc = "exec"
  /\ calls[i].stack = << >>
  /\ LET c == calls[i]
         nxt == regexecNext(c.r, c.str, c.s)
     IN IF c.retval = 1
          THEN /\ calls' = [calls EXCEPT ![i] =
                             [c EXCEPT !.startp[0] = c.s, !.endp[0] = reginput,
                                       !.result = 1, !.pc = "done", !.retval = NONE]]
               /\ UNCHANGED << reginput, regstartp >>
        ELSE IF nxt = NOPTR
          THEN /\ calls' = [calls EXCEPT ![i] =
                             [c EXCEPT !.result = 0, !.pc = "done", !.retval = NONE]]
               /\ UNCHANGED << reginput, regstartp >>
        ELSE /\ regstartp' = i
             /\ PutMachine(i, [c EXCEPT !.s = nxt], regtry(nxt), i)
  /\ UNCHANGED << phase, pattern, excompat, prog, subject, result, regbol, s,
                  stack, retval, startp, endp, okpath, retfrom, sub, work, mem >>

NextShared ==
  \E i \in 1..2 :
    \/ \E exp \in SharedCompiles : SharedRegcompBegin(i, exp, 0)
    \/ SharedRegcompEnd(i)
    \/ \E exp \in SharedPrograms : SharedRegexecCall(i, exp)
    \/ SharedRegmatchStep(i)
    \/ SharedRegtryReturn(i)

SpecShared == Init /\ [][NextShared]_vars

-----------------------------------------------------------------------------
(* The program as an automaton.  A configuration is a pair << node, pos >>: *)
(* the automaton is at the node with program index node and has read the   *)
(* subject up to offset pos.  Moves follows the meaning of the opcodes      *)
(* (lines 88-129); it knows nothing of the order in which regmatch tries    *)
(* the alternatives, of its backtracking or of the hints of regexec.        *)

\* does the simple node opnd take the one byte c
TakesByte(code, opnd, c) ==
  CASE OP(code, opnd) = ANY -> c # 0
    [] OP(code, opnd) = EXACTLY -> c # 0 /\ c = code[OPERAND(opnd)]
    [] OP(code, opnd) = ANYOF ->
         c # 0 /\ \E i \in 1..Len(CStr(code, OPERAND(opnd))) : CStr(code, OPERAND(opnd))[i] = c
    [] OP(code, opnd) = ANYBUT ->
         c # 0 /\ \A i \in 1..Len(CStr(code, OPERAND(opnd))) : CStr(code, OPERAND(opnd))[i] # c
    [] OTHER -> FALSE

\* the counts n for which the bytes pos .. pos+n-1 are all taken by opnd
RunCounts(code, str, opnd, pos) ==
  {n \in 0..(Len(str) - pos) :
     \A j \in 0..(n - 1) : TakesByte(code, opnd, CharAt(str, pos + j))}

\* is offset pos the start, respectively the end, of a word as the nodes
\* WORDSTART and WORDEND take it (lines 972-987)
AtWordStart(str, pos) ==
  pos = 0 \/ (CharAt(str, pos) # 0 /\ ~ISWORDPART(CharAt(str, pos - 1))
              /\ ISWORDPART(CharAt(str, pos)))

AtWordEnd(str, pos) ==
  CharAt(str, pos) = 0 \/ (pos # 0 /\ ISWORDPART(CharAt(str, pos - 1))
                           /\ ~ISWORDPART(CharAt(str, pos)))

\* the configurations one move away from << node, pos >>
Moves(code, str, node, pos) ==
  LET op == OP(code, node)
      nxt == regnext(code, node)
      opnd == CStr(code, OPERAND(node))
      To(q) == IF nxt = NULLP THEN {} ELSE {<< nxt, q >>}
  IN CASE op = END -> {}
       [] op = BOL -> IF pos = 0 THEN To(pos) ELSE {}
       [] op = EOL -> IF pos = Len(str) THEN To(pos) ELSE {}
       [] op = WORDSTART -> IF AtWordStart(str, pos) THEN To(pos) ELSE {}
       [] op = WORDEND -> IF AtWordEnd(str, pos) THEN To(pos) ELSE {}
       [] op \in {ANY, ANYOF, ANYBUT} ->
            IF TakesByte(code, node, CharAt(str, pos)) THEN To(pos + 1) ELSE {}
       [] op = EXACTLY ->
            IF pos + Len(opnd) <= Len(str) /\ SubSeq(str, pos + 1, pos + Len(opnd)) = opnd
              THEN To(pos + Len(opnd)) ELSE {}
       [] op = BRANCH ->
            {<< OPERAND(node), pos >>}
            \cup (IF nxt # NULLP /\ OP(code, nxt) = BRANCH THEN {<< nxt, pos >>} ELSE {})
       [] op \in {STAR, PLUS} ->
            UNION {To(pos + n) : n \in {k \in RunCounts(code, str, OPERAND(node), pos) :
                                          k >= (IF op = STAR THEN 0 ELSE 1)}}
       [] OTHER -> To(pos)

\* the configurations reachable from those of frontier, seen the ones found
RECURSIVE Reach(_, _, _, _)
Reach(code, str, frontier, seen) ==
  IF frontier = {} THEN seen
  ELSE LET new == (UNION {Moves(code, str, cf[1], cf[2]) : cf \in frontier}) \ seen
       IN Reach(code, str, new, seen \cup new)

\* can the automaton reach END from node with the subject read up to pos
CanEndFrom(code, str, node, pos) ==
  \E cf \in Reach(code, str, {<< node, pos >>}, {<< node, pos >>}) : OP(code, cf[1]) = END

\* can the automaton reach END when started at offset p of the subject
CanEnd(code, str, p) == CanEndFrom(code, str, 2, p)

\* a regexec call has returned
Returned == phase = "ready" /\ result # NONE

-----------------------------------------------------------------------------
(* C1: leftmost match.  When regexec returns 1 the start in slot 0 is the  *)
(* smallest offset of the subject from which the automaton can reach END;  *)
(* when it returns 0 the automaton can reach END from no offset in         *)
(* 0..len(subject).                                                        *)
LeftmostMatch ==
  Returned =>
    IF result = 1
      THEN /\ startp[0] \in 0..Len(subject)
           /\ CanEnd(prog.program, subject, startp[0])
           /\ \A p \in 0..(startp[0] - 1) : ~CanEnd(prog.program, subject, p)
    ELSE \A p \in 0..Len(subject) : ~CanEnd(prog.program, subject, p)

\* a match that starts after offset 0 although a later offset matches too
LeftmostMatchWitness ==
  /\ Returned
  /\ result = 1
  /\ startp[0] > 0
  /\ \E p \in (startp[0] + 1)..Len(subject) : CanEnd(prog.program, subject, p)

-----------------------------------------------------------------------------
(* The reference matcher of C2: no regmust test, no reganch, no regstart;  *)
(* regtry at the offsets 0, 1, ..., len(subject) in this order.            *)

\* regtry(string) run until its regmatch call has returned
RECURSIVE RunMatch(_, _, _)
RunMatch(m, code, str) ==
  IF m.stack = << >> THEN m ELSE RunMatch(regmatch(m, code, str, 0), code, str)

RECURSIVE ReferenceFrom(_, _, _)
ReferenceFrom(code, str, p) ==
  IF p > Len(str) THEN [ret |-> 0, startp |-> NoCaptures, endp |-> NoCaptures]
  ELSE LET m == RunMatch(regtry(p), code, str)
       IN IF m.retval = 1
            THEN [ret |-> 1,
                  startp |-> [m.startp EXCEPT ![0] = p],
                  endp |-> [m.endp EXCEPT ![0] = m.reginput]]
          ELSE ReferenceFrom(code, str, p + 1)

ReferenceExec(code, str) == ReferenceFrom(code, str, 0)

(* C2: the hints never change the outcome.  When regexec returns, its      *)
(* match flag is the one of the reference matcher and, on success, so are  *)
(* the boundaries of the slots 0..9.                                       *)
HintsNeverChangeOutcome ==
  Returned =>
    /\ result = ReferenceExec(prog.program, subject).ret
    /\ result = 1 =>
         /\ startp = ReferenceExec(prog.program, subject).startp
         /\ endp = ReferenceExec(prog.program, subject).endp

\* regexec went by the hints: the regmust string was looked for and found,
\* and the match starts after offset 0
HintsNeverChangeOutcomeWitness ==
  /\ Returned
  /\ prog.regmust # NULLP
  /\ result = 1
  /\ startp[0] > 0

-----------------------------------------------------------------------------
\* the program is a single top-level alternative whose first node is BOL
Anchored ==
  /\ prog.ok
  /\ OP(prog.program, regnext(prog.program, 2)) = END
  /\ OP(prog.program, OPERAND(2)) = BOL

(* C3: anchoring.  For a single top-level alternative whose first node is  *)
(* BOL, regcomp sets reganch, regexec calls regtry at offset 0 only, and a *)
(* subject in which what follows the BOL node does not match at offset 0   *)
(* yields no match, wherever else it would match.                          *)
AnchoredOnlyAtStart ==
  Anchored =>
    /\ prog.reganch # 0
    /\ phase = "exec" => s = 0
    /\ (Returned /\ result = 1) => startp[0] = 0
    /\ (Returned /\ ~CanEndFrom(prog.program, subject,
                                regnext(prog.program, OPERAND(2)), 0)) => result = 0

\* an anchored pattern whose rest matches at a later offset of the subject
\* only: regexec has returned 0
AnchoredOnlyAtStartWitness ==
  /\ Anchored
  /\ pattern[1] = chCaret
  /\ Returned
  /\ result = 0
  /\ \E p \in 1..Len(subject) :
       CanEndFrom(prog.program, subject, regnext(prog.program, OPERAND(2)), p)

-----------------------------------------------------------------------------
(* regexec runs to its end without waiting for anything: a step of         *)
(* regmatch that can be taken is taken, and so is the return of regtry.    *)
SpecLive == Spec /\ WF_vars(RegmatchStep) /\ WF_vars(RegtryReturn)

(* C4: termination.  Every regexec call on a program regcomp accepted      *)
(* returns: regmatch, the BRANCH ... BACK loops of the complex * and +     *)
(* included, reaches END or fails after finitely many steps.               *)
RegexecTerminates == (phase = "exec") ~> Returned

\* regexec has returned after regmatch went twice through the BRANCH node
\* of a BRANCH ... BACK loop
RegexecTerminatesWitness ==
  /\ Returned
  /\ result = 1
  /\ \E i, j \in 1..Len(okpath) :
       /\ i < j
       /\ okpath[i].scan = okpath[j].scan
       /\ OP(prog.program, okpath[i].scan) = BRANCH
       /\ OP(prog.program, regnext(prog.program, OPERAND(okpath[i].scan))) # BRANCH

-----------------------------------------------------------------------------
(* The successful path.  okpath holds the regmatch calls that were active  *)
(* when END was reached: one frame with pc "open" (resp. "close") for each *)
(* passage of the path through an OPEN (resp. CLOSE) node, in the order of *)
(* the path, save being the offset at which the node was passed.           *)

\* the offset at which the path last passed a node op waiting at pc,
\* NOPTR when it did not pass one
LastPassage(path, pc, op) ==
  LET passed == {i \in 1..Len(path) :
                   path[i].pc = pc /\ OP(prog.program, path[i].scan) = op}
  IN IF passed = {} THEN NOPTR
     ELSE path[CHOOSE i \in passed : \A j \in passed : j <= i].save

\* the nodes of the program from index p on: a node is its opcode, the two
\* bytes of its next offset and, for EXACTLY, ANYOF and ANYBUT, its
\* NUL-terminated operand string
RECURSIVE NodesFrom(_, _)
NodesFrom(code, p) ==
  IF p > Len(code) THEN {}
  ELSE {p} \cup NodesFrom(code, IF code[p] \in {EXACTLY, ANYOF, ANYBUT}
                                  THEN p + 3 + Len(CStr(code, p + 3)) + 1
                                ELSE p + 3)

\* the automaton gets from the node OPEN+k at offset from to the node
\* CLOSE+k at offset to: subject[from .. to) is matched by group k
GroupMatches(code, str, k, from, to) ==
  \E n \in NodesFrom(code, 2) :
    /\ code[n] = OPEN + k
    /\ \E cf \in Reach(code, str, {<< n, from >>}, {<< n, from >>}) :
         OP(code, cf[1]) = CLOSE + k /\ cf[2] = to

PatternAB == << chLP, chA, chRP, chLP, chB, chRP, chQm >>

(* C5: capture participation.  After a successful regexec slot k (1..9) is *)
(* set exactly when the successful path went through OPEN+k and CLOSE+k,   *)
(* and then it holds a substring that group k matches, the one of the      *)
(* path's passage; a group the path did not enter has null startp and      *)
(* endp.  `(a)(b)?` on "a" leaves slot 2 null, on "ab" slot 2 is "b".      *)
CaptureParticipation ==
  (Returned /\ result = 1) =>
    /\ \A k \in 1..(NSUBEXP - 1) :
         /\ startp[k] = LastPassage(okpath, "open", OPEN + k)
         /\ endp[k] = LastPassage(okpath, "close", CLOSE + k)
         /\ (startp[k] = NOPTR) = (endp[k] = NOPTR)
         /\ startp[k] # NOPTR =>
              /\ startp[k] <= endp[k]
              /\ GroupMatches(prog.program, subject, k, startp[k], endp[k])
    /\ (pattern = PatternAB /\ subject = << chA >>) =>
         /\ startp[1] = 0 /\ endp[1] = 1
         /\ startp[2] = NOPTR /\ endp[2] = NOPTR
    /\ (pattern = PatternAB /\ subject = << chA, chB >>) =>
         /\ startp[1] = 0 /\ endp[1] = 1
         /\ startp[2] = 1 /\ endp[2] = 2

\* `(a)(b)?` has matched "a": group 1 took part, the optional group 2 not
CaptureParticipationWitness ==
  /\ Returned
  /\ result = 1
  /\ pattern = PatternAB
  /\ subject = << chA >>
  /\ startp[1] = 0
  /\ startp[2] = NOPTR

-----------------------------------------------------------------------------
\* the regmatch call that has just returned was at the STAR or PLUS node
\* retfrom.scan, entered with the cursor at retfrom.save
RepeatReturned ==
  /\ phase = "exec"
  /\ retval # NONE
  /\ retfrom.pc \in {"starloop", "starwait"}

\* the counts n in min..m after which the remainder of the program matches
\* from cursor+n: m the longest run of operand matches at the cursor
GoodCounts(code, str, node, cursor) ==
  {n \in RunCounts(code, str, OPERAND(node), cursor) :
     /\ n >= (IF OP(code, node) = STAR THEN 0 ELSE 1)
     /\ CanEndFrom(code, str, regnext(code, node), cursor + n)}

(* C6: greedy repeat.  A regmatch call at a STAR or PLUS node returns 1    *)
(* with the largest count n in min..m after which the remainder of the     *)
(* program matches from cursor+n, and returns 0 when there is no such n;   *)
(* the lookahead at the first character of a following EXACTLY node makes  *)
(* no difference to the n that is chosen.                                  *)
GreedyRepeat ==
  RepeatReturned =>
    LET good == GoodCounts(prog.program, subject, retfrom.scan, retfrom.save)
    IN IF retval = 1
         THEN /\ retfrom.no \in good
              /\ \A n \in good : n <= retfrom.no
              /\ reginput >= retfrom.save + retfrom.no
       ELSE good = {}

\* a repeat followed by an EXACTLY node (the lookahead is on) has succeeded
\* with fewer than the m operand matches it started with
GreedyRepeatWitness ==
  /\ RepeatReturned
  /\ retval = 1
  /\ retfrom.nextch # 0
  /\ retfrom.no > 0
  /\ \E n \in RunCounts(prog.program, subject, OPERAND(retfrom.scan), retfrom.save) :
       n > retfrom.no

-----------------------------------------------------------------------------
(* The expansion of a template, read off the rules of substitution: an     *)
(* unescaped & is the substring of slot 0, \d the substring of slot d or   *)
(* nothing when the slot is unset, \\ one backslash, \& one ampersand,     *)
(* any other byte itself.                                                  *)

SlotString(k) ==
  IF startp[k] = NOPTR \/ endp[k] = NOPTR THEN << >>
  ELSE SubSeq(subject, startp[k] + 1, endp[k])

RECURSIVE Expand(_, _)
Expand(source, i) ==
  IF i > Len(source) THEN << >>
  ELSE IF source[i] = chAmp THEN SlotString(0) \o Expand(source, i + 1)
  ELSE IF source[i] = chBsl /\ i < Len(source) /\ source[i + 1] \in ch0..ch9
    THEN SlotString(source[i + 1] - ch0) \o Expand(source, i + 2)
  ELSE IF source[i] = chBsl /\ i < Len(source) /\ source[i + 1] \in {chBsl, chAmp}
    THEN << source[i + 1] >> \o Expand(source, i + 2)
  ELSE << source[i] >> \o Expand(source, i + 1)

(* C7: substitution bound.  regsub writes at most n bytes to dest, the     *)
(* terminating NUL included, none of them at or beyond dest+n (dst holds   *)
(* the bytes written, from dest[0] on); it fails with "line too long"      *)
(* exactly when the length of the expansion plus one exceeds n.            *)
SubstitutionBound ==
  sub.called =>
    /\ Len(sub.dst) <= sub.n
    /\ (sub.err = "line too long") = (Len(Expand(sub.source, 1)) + 1 > sub.n)
    /\ (sub.ret = NONE) = (sub.err # "")

\* `&&&` with a match of 2 bytes into a dest one byte too small: regsub has
\* filled dest and failed
SubstitutionBoundWitness ==
  /\ sub.called
  /\ sub.source = << chAmp, chAmp, chAmp >>
  /\ endp[0] - startp[0] = 2
  /\ sub.n = 6
  /\ Len(sub.dst) = 6
  /\ sub.err = "line too long"

(* C8: substitution expansion.  When regsub succeeds dest holds the        *)
(* expansion of the template followed by a NUL, and the pointer returned   *)
(* is dest plus the length of the expansion.                               *)
SubstitutionExpansion ==
  (sub.called /\ sub.err = "") =>
    /\ sub.dst = Append(Expand(sub.source, 1), 0)
    /\ sub.ret = Len(Expand(sub.source, 1))

\* regsub has expanded \1&\9\\\&a with slot 1 set and slot 9 unset
SubstitutionExpansionWitness ==
  /\ sub.called
  /\ sub.err = ""
  /\ sub.source = << chBsl, ch1, chAmp, chBsl, ch9, chBsl, chBsl, chBsl, chAmp, chA >>
  /\ startp[1] # NOPTR
  /\ endp[1] > startp[1]
  /\ endp[0] > startp[0]
  /\ startp[9] = NOPTR

-----------------------------------------------------------------------------
\* the bytes of the operand string of the node at index node
OperandSet(code, node) ==
  {CStr(code, OPERAND(node))[i] : i \in 1..Len(CStr(code, OPERAND(node)))}

\* the pattern is the one class << node's opcode >> over x..y: the program
\* is BRANCH, the node op with the bytes x..y as its operand, END
CompiledClass(op, x, y) ==
  /\ prog.ok
  /\ OP(prog.program, 2) = BRANCH
  /\ OP(prog.program, 5) = op
  /\ OperandSet(prog.program, 5) = x..y
  /\ OP(prog.program, regnext(prog.program, 5)) = END

\* the offsets of the subject whose byte is, resp. is not, one of x..y
InClass(x, y) == {p \in 0..(Len(subject) - 1) : CharAt(subject, p) \in x..y}

NotInClass(x, y) == {p \in 0..(Len(subject) - 1) : CharAt(subject, p) \notin x..y}

\* regexec has matched the one byte at the least offset of where, or has
\* failed when where is empty
MatchesFirstOf(where) ==
  IF where = {} THEN result = 0
  ELSE /\ result = 1
       /\ startp[0] \in where
       /\ \A p \in where : startp[0] <= p
       /\ endp[0] = startp[0] + 1

(* C9: character classes.  [x-y] with x <= y compiles to an ANYOF node     *)
(* whose set is every byte from x to y, [^x-y] to an ANYBUT node over the  *)
(* same set; ANYOF matches exactly one byte of the set, ANYBUT exactly one *)
(* byte of the subject (so not the NUL) outside the set; with x > y        *)
(* regcomp fails with "invalid [] range".                                  *)
CharacterClasses ==
  \A x, y \in ClassChars :
    /\ (phase # "idle" /\ pattern = ClassOf(x, y)) =>
         IF x <= y
           THEN /\ CompiledClass(ANYOF, x, y)
                /\ Returned => MatchesFirstOf(InClass(x, y))
         ELSE ~prog.ok /\ prog.err = "invalid [] range"
    /\ (phase # "idle" /\ pattern = ClassButOf(x, y)) =>
         IF x <= y
           THEN /\ CompiledClass(ANYBUT, x, y)
                /\ Returned => MatchesFirstOf(NotInClass(x, y))
         ELSE ~prog.ok /\ prog.err = "invalid [] range"

\* [^a-b] has matched the first byte of the subject that is neither a nor b,
\* after bytes that are
CharacterClassesWitness ==
  /\ Returned
  /\ pattern = ClassButOf(chA, chB)
  /\ result = 1
  /\ startp[0] > 0
  /\ CharAt(subject, startp[0]) \notin chA..chB

-----------------------------------------------------------------------------
\* the innermost regmatch call is at a node op and its next trip of the
\* loop lets the node succeed: the call goes on, it does not return
NodeSucceeds(op) ==
  /\ phase = "exec"
  /\ stack # << >>
  /\ Top(Machine).pc = "run"
  /\ OP(prog.program, Top(Machine).scan) = op
  /\ Len(stack') = Len(stack)

\* the byte before reginput, 0 when there is none
PrecedingByte == IF reginput = 0 THEN 0 ELSE CharAt(subject, reginput - 1)

(* C10: word boundaries.  WORDSTART succeeds only where the preceding byte *)
(* is not a word byte (or there is none) and the current byte is a word    *)
(* byte; WORDEND only where the preceding byte is a word byte and the      *)
(* current byte is not one (or is the terminator).                         *)
WordBoundaries ==
  [][ /\ NodeSucceeds(WORDSTART) =>
           ~ISWORDPART(PrecedingByte) /\ ISWORDPART(CharAt(subject, reginput))
      /\ NodeSucceeds(WORDEND) =>
           ISWORDPART(PrecedingByte) /\ ~ISWORDPART(CharAt(subject, reginput))
    ]_vars

-----------------------------------------------------------------------------
(* C11: compilation is idempotent and independent of the history.  What a  *)
(* regcomp call returns (no program, or the program bytes with regstart,   *)
(* reganch, regmust and regmlen) is what regcomp returns for the same      *)
(* pattern and excompat, with the same answer of the allocator, in a       *)
(* process that has not called regcomp or regexec before: whatever calls   *)
(* came before, the failed compiles among them.                            *)
CompileIsAFunction ==
  phase # "idle" =>
    prog = regcompFrom(NoWork, pattern, excompat, mem.regerror # "out of space").r

\* a compile of two groups that succeeds, in a process that has called
\* regexec, and so regcomp, before
CompileIsAFunctionWitness ==
  /\ phase = "ready"
  /\ result = NONE
  /\ pattern = << chLP, chA, chRP, chLP, chB, chRP >>
  /\ prog.ok
  /\ work.regnpar = 3
  /\ reginput # NOPTR

-----------------------------------------------------------------------------
(* C12: a compile failure is clean.  When regcomp returns no program the   *)
(* token buffer exp2 has been freed exactly once, the program r, if it was *)
(* allocated, has been freed exactly once, regerror has got a message and  *)
(* no program is returned; when regcomp returns a program, exp2 has been   *)
(* freed exactly once and r has not been freed.                            *)
CompileFailureIsClean ==
  phase # "idle" =>
    /\ mem.exp2made = 1
    /\ mem.exp2freed = 1
    /\ mem.rmade \in {0, 1}
    /\ IF prog.ok
         THEN mem.rmade = 1 /\ mem.rfreed = 0
       ELSE /\ mem.rfreed = mem.rmade
            /\ mem.regerror # ""
            /\ prog.program = << >>

\* regcomp has returned no program because there was no space for it,
\* after a first pass that accepted the pattern
CompileFailureIsCleanWitness ==
  /\ phase = "ready"
  /\ ~prog.ok
  /\ mem.regerror = "out of space"
  /\ mem.exp2freed = 1
  /\ work.regsize > 0

-----------------------------------------------------------------------------
\* what regexec(r, str) returns and leaves in the tables of r when no
\* other call is in progress
AloneExec(c) == ReferenceExec(c.r.program, c.str)

\* what a caller can see of what regcomp returned: whether there is a
\* program, its bytes and the four hints
Visible(r) == << r.ok, r.program, r.regstart, r.reganch, r.regmust, r.regmlen >>

(* C13: call isolation.  When the steps of two regcomp calls, or of two    *)
(* regexec calls on different programs, are interleaved, each call returns *)
(* what it returns when it runs alone: regcomp the same regexp (or no      *)
(* program), regexec the same match flag and, on success, the same capture *)
(* tables; no call writes outside the memory it has allocated.             *)
CallIsolation ==
  \A i \in 1..2 :
    /\ calls[i].pc # "overrun"
    /\ (calls[i].pc = "done" /\ calls[i].op = "regcomp") =>
         Visible(calls[i].r) = Visible(regcomp(calls[i].exp, calls[i].ex))
    /\ (calls[i].pc = "done" /\ calls[i].op = "regexec") =>
         /\ calls[i].result = AloneExec(calls[i]).ret
         /\ calls[i].result = 1 =>
              /\ calls[i].startp = AloneExec(calls[i]).startp
              /\ calls[i].endp = AloneExec(calls[i]).endp

-----------------------------------------------------------------------------
\* A depth of recursion that comes from the nesting of the pattern alone
\* has every node of the program at most once among the active regmatch
\* calls: it is at most the number of nodes of the program.
DepthOfPattern == Cardinality(NodesFrom(prog.program, 2))

(* C14: recursion bound.  During regexec the number of regmatch calls that *)
(* are active at the same time is bounded by a value that depends on the   *)
(* pattern only, the number of nodes of its program, whatever the length   *)
(* of the subject.                                                         *)
RecursionBound == phase = "exec" => Len(stack) <= DepthOfPattern

-----------------------------------------------------------------------------
\* the opcodes of the nodes of the program from index p on, in the order
\* of their addresses
RECURSIVE NodeOps(_, _)
NodeOps(code, p) ==
  IF p > Len(code) THEN << >>
  ELSE << code[p] >> \o NodeOps(code, IF code[p] \in {EXACTLY, ANYOF, ANYBUT}
                                        THEN p + 3 + Len(CStr(code, p + 3)) + 1
                                      ELSE p + 3)

IsOpen(op) == op \in (OPEN + 1)..(OPEN + NSUBEXP - 1)

IsClose(op) == op \in (CLOSE + 1)..(CLOSE + NSUBEXP - 1)

\* the group numbers of the OPEN nodes, respectively of the CLOSE nodes, of
\* the program in the order of their addresses
OpenOrder(code) ==
  [i \in 1..Len(SelectSeq(NodeOps(code, 2), IsOpen)) |->
     SelectSeq(NodeOps(code, 2), IsOpen)[i] - OPEN]

CloseOrder(code) ==
  [i \in 1..Len(SelectSeq(NodeOps(code, 2), IsClose)) |->
     SelectSeq(NodeOps(code, 2), IsClose)[i] - CLOSE]

\* The pattern read from the left, counting its opening parentheses:
\* opened is the count so far, pending the numbers of the groups that are
\* open at token i (innermost last), closed the numbers of the groups in
\* the order in which their closing parentheses come.
RECURSIVE ClosingOrder(_, _, _, _, _)
ClosingOrder(toks, i, opened, pending, closed) ==
  IF i > Len(toks) THEN closed
  ELSE IF toks[i] = LBRAC
    THEN ClosingOrder(toks, i + 1, opened + 1, Append(pending, opened + 1), closed)
  ELSE IF toks[i] = RBRAC /\ pending # << >>
    THEN ClosingOrder(toks, i + 1, opened, SubSeq(pending, 1, Len(pending) - 1),
                      Append(closed, pending[Len(pending)]))
  ELSE ClosingOrder(toks, i + 1, opened, pending, closed)

\* the token stream of the pattern
PatternTokens == Tokenize(pattern, excompat, 1, << >>).exp2

\* a pattern without character classes: each of its ( tokens opens a group
NoClassInPattern == \A i \in 1..Len(PatternTokens) : PatternTokens[i] # LSQBRAC

GroupCount == Cardinality({i \in 1..Len(PatternTokens) : PatternTokens[i] = LBRAC})

\* regcomp has just returned: no regexec call has been made yet
RegcompReturned == phase = "ready" /\ result = NONE /\ ~sub.called

(* C15: group limit and numbering.  A pattern with at most 9 groups does   *)
(* not fail with "too many ()", and the patterns of GroupPatterns with at  *)
(* most 9 groups compile; in every compiled program the OPEN nodes carry   *)
(* the numbers 1, 2, ..., n in the order of the opening parentheses and    *)
(* the CLOSE nodes the number of the group their parenthesis closes, no    *)
(* number above 9; a pattern with 10 or more groups does not compile, and  *)
(* fails with "too many ()" when nothing else is wrong with it.            *)
GroupLimitAndNumbering ==
  (RegcompReturned /\ NoClassInPattern /\ PatternTokens # << >>) =>
    /\ GroupCount <= NSUBEXP - 1 => prog.err # "too many ()"
    /\ (GroupCount <= NSUBEXP - 1 /\ pattern \in GroupPatterns) => prog.ok
    /\ GroupCount >= NSUBEXP => ~prog.ok
    /\ (GroupCount >= NSUBEXP /\ pattern \in GroupPatterns) =>
         prog.err = "too many ()"
    /\ prog.ok =>
         /\ OpenOrder(prog.program) = [k \in 1..GroupCount |-> k]
         /\ CloseOrder(prog.program) =
              ClosingOrder(PatternTokens, 1, 0, << >>, << >>)

\* a pattern of nine groups, seven of them nested, has compiled
GroupLimitAndNumberingWitness ==
  /\ RegcompReturned
  /\ GroupCount = NSUBEXP - 1
  /\ prog.ok
  /\ CloseOrder(prog.program) = << 7, 6, 5, 4, 3, 2, 1, 8, 9 >>

-----------------------------------------------------------------------------
(* C16: two-pass sizing.  When the first pass has accepted the pattern and *)
(* the program has been allocated, the second pass succeeds too and emits  *)
(* exactly regsize bytes, the count of the first pass: the program, which  *)
(* only grows while it is emitted (regc and regnode append, reginsert      *)
(* shifts by three bytes), ends at program + regsize.                      *)
TwoPassSizing ==
  (phase # "idle" /\ mem.rmade = 1) =>
    /\ prog.ok
    /\ mem.rfreed = 0
    /\ work.emit
    /\ work.code = prog.program
    /\ Len(prog.program) = work.regsize
    /\ prog.regsize = work.regsize

\* the program of (a|b)*a has been emitted: a BRANCH ... BACK loop whose
\* first BRANCH reginsert has put in front of the group
TwoPassSizingWitness ==
  /\ phase = "ready"
  /\ pattern = << chLP, chA, chOr, chB, chRP, chStar, chA >>
  /\ prog.ok
  /\ Len(prog.program) = work.regsize
  /\ \E q \in NodesFrom(prog.program, 2) : OP(prog.program, q) = BACK

-----------------------------------------------------------------------------
(* C17: repeat operands are never empty.  regcomp rejects, with the        *)
(* message "*+ operand could be empty", every * or + whose operand can     *)
(* match the empty string, at any nesting depth; ? on such an operand is   *)
(* accepted.  So in a compiled program no path leads from the head of a    *)
(* BRANCH ... BACK loop through its BACK and round again without taking a  *)
(* byte, the operand of every STAR and PLUS takes exactly one byte, and in *)
(* the matcher a node that is active twice in the recursion is active at   *)
(* a strictly later cursor the second time.                                *)

\* the configurations of the automaton of code reachable from node at pos
\* by at least one move
ReachAfter(code, str, node, pos) ==
  LET first == Moves(code, str, node, pos)
  IN Reach(code, str, first, first)

\* can a trip from the target of the BACK node b come round to b with the
\* cursor where it was
EmptyTrip(code, str, b) ==
  \E pos \in 0..Len(str) :
    << b, pos >> \in ReachAfter(code, str, b, pos)

\* the frames of the recursion that wait for a callee at the node scan
WaitingAt(scan) ==
  {i \in 1..Len(stack) : stack[i].scan = scan /\ stack[i].pc \in {"branch", "open", "close"}}

RepeatOperandsNeverEmpty ==
  /\ (phase # "idle" /\ pattern \in EmptyRepeats) =>
       (~prog.ok /\ prog.err = "*+ operand could be empty")
  /\ (phase # "idle" /\ pattern \in EmptyOptionals) => prog.ok
  /\ (Returned /\ prog.ok) =>
       \A q \in NodesFrom(prog.program, 2) :
         /\ OP(prog.program, q) = BACK => ~EmptyTrip(prog.program, subject, q)
         /\ OP(prog.program, q) \in {STAR, PLUS} =>
              OP(prog.program, OPERAND(q)) \in {ANY, ANYOF, ANYBUT, EXACTLY}
  /\ (phase = "exec" /\ prog.ok) =>
       /\ \A i, j \in 1..Len(stack) :
            (i < j /\ i \in WaitingAt(stack[j].scan) /\ j \in WaitingAt(stack[j].scan))
              => stack[i].save < stack[j].save

\* the matcher of ((a)|b)+ has come round the loop: the BRANCH that holds
\* the BACK is active twice, the second time two bytes further on
RepeatOperandsNeverEmptyWitness ==
  /\ phase = "exec"
  /\ pattern = << chLP, chLP, chA, chRP, chOr, chB, chRP, chPlus >>
  /\ \E i, j \in 1..Len(stack) :
       /\ i < j
       /\ stack[i].scan = stack[j].scan
       /\ stack[i].pc = "branch" /\ stack[j].pc = "branch"
       /\ OP(prog.program, OPERAND(stack[i].scan)) = BACK
       /\ stack[j].save = stack[i].save + 2

-----------------------------------------------------------------------------
\* The pattern as it is written, read off its token stream.

\* the index of the ] that closes the character class opened at i
RECURSIVE ClassClose(_, _)
ClassClose(toks, j) ==
  IF j > Len(toks) THEN j
  ELSE IF toks[j] = RSQBRAC THEN j ELSE ClassClose(toks, j + 1)

ClassEnd(toks, i) ==
  LET j == IF i + 1 <= Len(toks) /\ toks[i + 1] = CARET THEN i + 2 ELSE i + 1
      k == IF j <= Len(toks) /\ toks[j] \in {RSQBRAC, chMinus} THEN j + 1 ELSE j
  IN ClassClose(toks, k)

\* the index of the ) that closes the group whose inside starts at i
RECURSIVE GroupEnd(_, _, _)
GroupEnd(toks, i, depth) ==
  IF i > Len(toks) THEN i
  ELSE CASE toks[i] = LSQBRAC -> GroupEnd(toks, ClassEnd(toks, i) + 1, depth)
         [] toks[i] = LBRAC -> GroupEnd(toks, i + 1, depth + 1)
         [] toks[i] = RBRAC ->
              IF depth = 1 THEN i ELSE GroupEnd(toks, i + 1, depth - 1)
         [] OTHER -> GroupEnd(toks, i + 1, depth)

\* the index of the last token of the atom that starts at i
AtomEnd(toks, i) ==
  CASE toks[i] = LSQBRAC -> ClassEnd(toks, i)
    [] toks[i] = LBRAC -> GroupEnd(toks, i + 1, 1)
    [] OTHER -> i

\* the suffix of the piece that starts at i, 0 when it has none
SuffixOf(toks, i) ==
  LET e == AtomEnd(toks, i)
  IN IF e + 1 <= Len(toks) /\ toks[e + 1] \in {ASTERIX, PLUSS, QMARK}
       THEN toks[e + 1] ELSE 0

\* where the alternatives start that lie between i and the closing index
\* last, i the start of the first one
RECURSIVE AltStarts(_, _, _)
AltStarts(toks, i, last) ==
  IF i > last THEN {}
  ELSE CASE toks[i] = OR_OP -> {i + 1} \cup AltStarts(toks, i + 1, last)
         [] toks[i] \in {LSQBRAC, LBRAC} -> AltStarts(toks, AtomEnd(toks, i) + 1, last)
         [] OTHER -> AltStarts(toks, i + 1, last)

\* the pattern text without the terminating NUL
PatternLen == Len(PatternTokens) - 1

\* the pattern is one alternative at the top level
SingleAlternative == AltStarts(PatternTokens, 1, PatternLen) = {}

\* the alternative that starts at i is not empty
HasPiece(toks, i) == i <= Len(toks) /\ toks[i] \notin {0, OR_OP, RBRAC}

\* the alternative that starts at i starts with a piece x* or x?, or with
\* a group that has no suffix and an alternative that starts so
RECURSIVE StartsOptional(_, _)
StartsOptional(toks, i) ==
  /\ HasPiece(toks, i)
  /\ \/ SuffixOf(toks, i) \in {ASTERIX, QMARK}
     \/ /\ SuffixOf(toks, i) = 0
        /\ toks[i] = LBRAC
        /\ \E a \in {i + 1} \cup AltStarts(toks, i + 1, AtomEnd(toks, i) - 1) :
             StartsOptional(toks, a)

\* the nodes of the next-pointer chain from scan
RECURSIVE ChainFrom(_, _)
ChainFrom(code, scan) ==
  IF scan = NULLP THEN {} ELSE {scan} \cup ChainFrom(code, regnext(code, scan))

\* the EXACTLY nodes on the top-level chain, which starts at the operand of
\* the first BRANCH
ChainExactly(code) ==
  {q \in ChainFrom(code, OPERAND(2)) : OP(code, q) = EXACTLY}

\* regmust is the longest EXACTLY operand of the chain, the later on ties
MustIsLongest(r) ==
  \E q \in ChainExactly(r.program) :
    /\ r.regmust = OPERAND(q)
    /\ r.regmlen = Len(CStr(r.program, OPERAND(q)))
    /\ \A o \in ChainExactly(r.program) :
         \/ Len(CStr(r.program, OPERAND(o))) < r.regmlen
         \/ Len(CStr(r.program, OPERAND(o))) = r.regmlen /\ o <= q

\* regmust is set in the case cond and in no other
MustExactlyWhen(cond) ==
  (phase # "idle" /\ prog.ok) =>
    IF cond /\ ChainExactly(prog.program) # {}
      THEN MustIsLongest(prog)
    ELSE prog.regmust = NULLP /\ prog.regmlen = 0

-----------------------------------------------------------------------------
(* C19: ordered alternation.  At a BRANCH with siblings the matcher tries  *)
(* the alternatives in pattern order, each from the same saved cursor, and *)
(* commits to the first alternative from which the whole remainder of the  *)
(* program matches, even when a later alternative would give a longer      *)
(* overall match: a|ab on "ab" matches "a".  The BRANCH fails only after   *)
(* every alternative has failed.                                           *)

\* the BRANCH node b and the siblings after it
RECURSIVE SiblingsFrom(_, _)
SiblingsFrom(code, b) ==
  IF b = NULLP \/ OP(code, b) # BRANCH THEN {}
  ELSE {b} \cup SiblingsFrom(code, regnext(code, b))

\* the alternatives that stand before the alternative scan in the pattern
EarlierAlternatives(code, scan) ==
  {b \in NodesFrom(code, 2) : b # scan /\ scan \in SiblingsFrom(code, b)}

\* none of the alternatives alts leads to END from the cursor save
AllFail(code, str, alts, save) ==
  \A b \in alts : ~CanEndFrom(code, str, OPERAND(b), save)

\* a frame of a BRANCH with siblings
AtBranch(f) == f.pc = "branch"

OrderedAlternation ==
  /\ (phase = "exec") =>
       /\ \A i \in 1..Len(stack) :
            AtBranch(stack[i]) =>
              /\ AllFail(prog.program, subject,
                         EarlierAlternatives(prog.program, stack[i].scan), stack[i].save)
              /\ (i + 1 = Len(stack) /\ retval = NONE
                    /\ stack[i + 1] = Frame(OPERAND(stack[i].scan)))
                   => reginput = stack[i].save
       /\ (retval = 1 /\ AtBranch(retfrom)) =>
            /\ CanEndFrom(prog.program, subject, OPERAND(retfrom.scan), retfrom.save)
            /\ AllFail(prog.program, subject,
                       EarlierAlternatives(prog.program, retfrom.scan), retfrom.save)
       /\ (retval = 0 /\ AtBranch(retfrom)) =>
            /\ SiblingsFrom(prog.program, regnext(prog.program, retfrom.scan)) = {}
            /\ reginput = retfrom.save
            /\ AllFail(prog.program, subject,
                       EarlierAlternatives(prog.program, retfrom.scan) \cup {retfrom.scan},
                       retfrom.save)
  /\ (Returned /\ pattern = << chA, chOr, chA, chB >> /\ subject = << chA, chB >>) =>
       (result = 1 /\ startp[0] = 0 /\ endp[0] = 1)

\* (a|b)*a on "ba": the BRANCH of the group has returned 1 from cursor 0
\* through its second alternative, b, after the first one failed there
OrderedAlternationWitness ==
  /\ phase = "exec"
  /\ pattern = << chLP, chA, chOr, chB, chRP, chStar, chA >>
  /\ subject = << chB, chA >>
  /\ retval = 1
  /\ AtBranch(retfrom)
  /\ retfrom.save = 0
  /\ EarlierAlternatives(prog.program, retfrom.scan) # {}
  /\ OP(prog.program, OPERAND(retfrom.scan)) = EXACTLY

-----------------------------------------------------------------------------
(* C20: record after success.  During one regtry no capture slot is        *)
(* written until END has been reached; OPEN+k and CLOSE+k write startp[k]  *)
(* and endp[k] only while the successful recursion unwinds and only into a *)
(* slot that is still null.  So a regtry that fails leaves all ten startp  *)
(* and endp entries null, and nothing recorded for an abandoned            *)
(* backtracking path survives.                                             *)

\* END has been reached in the regtry that is running
EndReached == okpath # << >>

\* the regtry that is running has written no slot
NothingRecorded == startp = NoCaptures /\ endp = NoCaptures

\* in the states of a running regtry
RecordOnlyAfterEnd ==
  (phase = "exec") =>
    /\ ~EndReached => NothingRecorded
    /\ EndReached => retval = 1
    /\ (stack = << >> /\ retval = 0) => NothingRecorded

\* a step of regmatch that changes slot k of table writes the cursor saved
\* by the node op + k into a null slot while 1 is being returned
WritesSlot(table, tablep, pc, op) ==
  \A k \in 0..(NSUBEXP - 1) :
    (phase = "exec" /\ stack # << >> /\ tablep[k] # table[k]) =>
      /\ EndReached
      /\ retval = 1
      /\ table[k] = NOPTR
      /\ stack[Len(stack)].pc = pc
      /\ OP(prog.program, stack[Len(stack)].scan) = op + k
      /\ tablep[k] = stack[Len(stack)].save
      /\ retval' = 1

RecordAfterSuccess ==
  /\ []RecordOnlyAfterEnd
  /\ [][/\ WritesSlot(startp, startp', "open", OPEN)
        /\ WritesSlot(endp, endp', "close", CLOSE)
        /\ (phase = "exec" /\ stack # << >> /\ startp' # startp) => endp' = endp]_vars

\* (a)(b)? on "ab" while the successful recursion unwinds: the second
\* group is recorded, the first, whose OPEN returns later, is still null
RecordAfterSuccessWitness ==
  /\ phase = "exec"
  /\ pattern = << chLP, chA, chRP, chLP, chB, chRP, chQm >>
  /\ subject = << chA, chB >>
  /\ EndReached
  /\ retval = 1
  /\ startp[2] = 1 /\ endp[2] = 2
  /\ startp[1] = NOPTR /\ endp[1] = NOPTR

-----------------------------------------------------------------------------
(* C21: literal-run back-off.  For a run of n >= 2 ordinary characters     *)
(* c1..cn immediately followed by *, + or ?, regatom emits one EXACTLY     *)
(* node holding c1..c(n-1) and the repeat operator applies to cn alone:    *)
(* abc* matches "ab" followed by zero or more "c".  A run not followed by  *)
(* a repeat operator becomes a single EXACTLY node holding the whole run.  *)

\* an ordinary character of the token stream
Ordinary(t) == t # 0 /\ ~HasFlag(t, SPECIAL)

\* a literal the pattern asks for: its characters and the repeat operator
\* that applies to it, 0 when none does
Lit(str, op) == [str |-> str, op |-> op]

\* the literals of the run that ends in front of the token t
RunLiterals(run, t) ==
  IF run = << >> THEN << >>
  ELSE IF ~ISMULT(t) THEN << Lit(run, 0) >>
  ELSE IF Len(run) = 1 THEN << Lit(run, t) >>
  ELSE << Lit(SubSeq(run, 1, Len(run) - 1), 0), Lit(<< run[Len(run)] >>, t) >>

\* the literals of the pattern from token i on, in pattern order, run the
\* ordinary characters read since the last other token
RECURSIVE PatternLiterals(_, _, _)
PatternLiterals(toks, i, run) ==
  IF i > Len(toks) \/ toks[i] = 0 THEN RunLiterals(run, 0)
  ELSE IF Ordinary(toks[i]) THEN PatternLiterals(toks, i + 1, Append(run, toks[i]))
  ELSE RunLiterals(run, toks[i])
         \o PatternLiterals(toks, IF toks[i] = LSQBRAC THEN ClassEnd(toks, i) + 1
                                  ELSE i + 1, << >>)

\* the EXACTLY nodes of the program from index p on, in the order of their
\* addresses
RECURSIVE ExactlyNodes(_, _)
ExactlyNodes(code, p) ==
  IF p > Len(code) THEN << >>
  ELSE IF code[p] = EXACTLY
    THEN << p >> \o ExactlyNodes(code, p + 3 + Len(CStr(code, p + 3)) + 1)
  ELSE ExactlyNodes(code, IF code[p] \in {ANYOF, ANYBUT}
                            THEN p + 3 + Len(CStr(code, p + 3)) + 1
                          ELSE p + 3)

\* the node q is the operand of the node the repeat operator t makes
RepeatedBy(code, q, t) ==
  CASE t = ASTERIX -> OP(code, q - 3) = STAR /\ OPERAND(q - 3) = q
    [] t = PLUSS -> OP(code, q - 3) = PLUS /\ OPERAND(q - 3) = q
    [] t = QMARK ->
         /\ OP(code, q - 3) = BRANCH
         /\ OP(code, regnext(code, q - 3)) = BRANCH
         /\ OP(code, OPERAND(regnext(code, q - 3))) = NOTHING
         /\ regnext(code, q) = OPERAND(regnext(code, q - 3))
    [] OTHER -> (q - 3) \in NodesFrom(code, 2) => OP(code, q - 3) \notin {STAR, PLUS}

LiteralRunBackOff ==
  /\ (RegcompReturned /\ prog.ok) =>
       LET lits == PatternLiterals(PatternTokens, 1, << >>)
           nodes == ExactlyNodes(prog.program, 2)
       IN /\ Len(nodes) = Len(lits)
          /\ \A k \in 1..Len(lits) :
               /\ CStr(prog.program, OPERAND(nodes[k])) = lits[k].str
               /\ RepeatedBy(prog.program, nodes[k], lits[k].op)
  /\ (Returned /\ pattern = << chA, chB, chC, chStar >>) =>
       /\ result = 1 <=>
            \E i \in 1..(Len(subject) - 1) : subject[i] = chA /\ subject[i + 1] = chB
       /\ subject = << chA, chB >> => (startp[0] = 0 /\ endp[0] = 2)
  /\ (Returned /\ pattern = << chA, chB, chB, chStar >>) =>
       /\ result = 1 <=>
            \E i \in 1..(Len(subject) - 1) : subject[i] = chA /\ subject[i + 1] = chB
       /\ subject = << chA, chB, chB >> => (startp[0] = 0 /\ endp[0] = 3)
       /\ subject = << chA, chB, chA, chB >> => (startp[0] = 0 /\ endp[0] = 2)
       /\ subject = << chB, chA, chB >> => (startp[0] = 1 /\ endp[0] = 3)
       /\ subject = << chA, chB >> => (startp[0] = 0 /\ endp[0] = 2)

\* abb* has been compiled to EXACTLY "ab" and STAR over EXACTLY "b", and has
\* matched all of "abb"
LiteralRunBackOffWitness ==
  /\ Returned
  /\ pattern = << chA, chB, chB, chStar >>
  /\ subject = << chA, chB, chB >>
  /\ result = 1 /\ startp[0] = 0 /\ endp[0] = 3
  /\ Len(ExactlyNodes(prog.program, 2)) = 2
  /\ CStr(prog.program, OPERAND(ExactlyNodes(prog.program, 2)[1])) = << chA, chB >>
  /\ OP(prog.program, ExactlyNodes(prog.program, 2)[2] - 3) = STAR

-----------------------------------------------------------------------------
(* C22: ex-compat duality.  Plain ( and ) are grouping tokens iff excompat *)
(* is 0 and \( and \) are grouping tokens iff excompat is non-zero.  So    *)
(* for every pattern P, regcomp(P, 0) and regcomp(P', 1) produce the same  *)
(* token stream and the same outcome, where P' is P with every unescaped   *)
(* parenthesis replaced by its backslash-escaped form and every escaped    *)
(* parenthesis by its plain form.                                          *)

\* P' from exp[i] on: a backslash escapes the character after it
RECURSIVE SwapParens(_, _)
SwapParens(exp, i) ==
  LET c == PatAt(exp, i)
      e == PatAt(exp, i + 1)
  IN IF c = 0 THEN << >>
     ELSE IF c = chLP \/ c = chRP THEN << chBsl, c >> \o SwapParens(exp, i + 1)
     ELSE IF c = chBsl
       THEN IF e = 0 THEN << chBsl >>
            ELSE IF e = chLP \/ e = chRP THEN << e >> \o SwapParens(exp, i + 2)
            ELSE << chBsl, e >> \o SwapParens(exp, i + 2)
     ELSE << c >> \o SwapParens(exp, i + 1)

\* the indices of exp that hold a plain parenthesis, those that hold the
\* parenthesis of an escaped one, and the index each has in the token
\* stream
RECURSIVE ParenTokens(_, _, _)
ParenTokens(exp, i, t) ==
  LET c == PatAt(exp, i)
      e == PatAt(exp, i + 1)
  IN IF c = 0 THEN {}
     ELSE IF c = chLP \/ c = chRP
       THEN {[char |-> c, escaped |-> FALSE, tok |-> t]} \cup ParenTokens(exp, i + 1, t + 1)
     ELSE IF c = chBsl
       THEN IF e = 0 THEN {}
            ELSE IF e = chLP \/ e = chRP
              THEN {[char |-> e, escaped |-> TRUE, tok |-> t]}
                     \cup ParenTokens(exp, i + 2, t + 1)
            ELSE ParenTokens(exp, i + 2, t + 1)
     ELSE ParenTokens(exp, i + 1, t + 1)

ExCompatDuality ==
  RegcompReturned =>
    /\ Tokenize(pattern, excompat, 1, << >>)
         = Tokenize(SwapParens(pattern, 1), 1 - excompat, 1, << >>)
    /\ prog = regcomp(SwapParens(pattern, 1), 1 - excompat)
    /\ SwapParens(SwapParens(pattern, 1), 1) = pattern
    /\ Tokenize(pattern, excompat, 1, << >>).err = "" =>
         \A x \in ParenTokens(pattern, 1, 1) :
           PatternTokens[x.tok] =
             IF x.escaped = (excompat # 0) THEN x.char + SPECIAL ELSE x.char

\* \(a\)*b has been compiled with excompat 1 to the program (a)*b gives
\* with excompat 0, a program with the nodes of a group
ExCompatDualityWitness ==
  /\ RegcompReturned
  /\ excompat = 1
  /\ pattern = << chBsl, chLP, chA, chBsl, chRP, chStar, chB >>
  /\ prog.ok
  /\ prog = regcomp(<< chLP, chA, chRP, chStar, chB >>, 0)
  /\ \E q \in NodesFrom(prog.program, 2) : OP(prog.program, q) = OPEN + 1

-----------------------------------------------------------------------------
(* C23: no stale captures after a failed match.  Whenever regexec returns  *)
(* 0 for a valid program and a subject, every startp[k] and endp[k], k in  *)
(* 0..9, of the program is null, whatever earlier regexec calls on the     *)
(* same program recorded, and also when the failure is decided by the      *)
(* regmust pre-filter or by the regstart scan finding no candidate         *)
(* position.  A slot regcomp left uninitialized and no regexec call has    *)
(* written yet is counted as null here, so that only a pointer an earlier  *)
(* call recorded violates the property.                                    *)

\* slot k of table is null, or was never written since regcomp
NullSlot(table, k) == table[k] \in {NOPTR, UNINIT}

\* the regexec call that has returned ran no regtry: lines 857-869 did not
\* find regmust, or lines 880-887 found no regstart
NoRegtryRun ==
  \/ /\ prog.regmust # NULLP
     /\ ~regmustFound(subject, SubSeq(CStr(prog.program, prog.regmust), 1, prog.regmlen), 0)
  \/ regexecFirst(prog, subject) = NOPTR

NoStaleCaptures ==
  (Returned /\ result = 0 /\ prog.ok) =>
    \A k \in 0..(NSUBEXP - 1) : NullSlot(startp, k) /\ NullSlot(endp, k)

\* the part of the property that holds: a failed regexec that ran a regtry
\* leaves both tables null
NoStaleCapturesAfterRegtry ==
  (Returned /\ result = 0 /\ prog.ok /\ ~NoRegtryRun) =>
    \A k \in 0..(NSUBEXP - 1) : startp[k] = NOPTR /\ endp[k] = NOPTR

-----------------------------------------------------------------------------
(* C24: capture-table consistency.  After every successful regexec, slot 0 *)
(* is set and, for each k in 0..9, startp[k] and endp[k] are either both   *)
(* null or both non-null with                                              *)
(* startp[0] <= startp[k] <= endp[k] <= endp[0] <= subject end.            *)
CaptureTableConsistency ==
  (Returned /\ result = 1) =>
    /\ startp[0] >= 0 /\ endp[0] >= 0
    /\ \A k \in 0..(NSUBEXP - 1) :
         \/ startp[k] = NOPTR /\ endp[k] = NOPTR
         \/ /\ startp[k] >= 0 /\ endp[k] >= 0
            /\ startp[0] <= startp[k]
            /\ startp[k] <= endp[k]
            /\ endp[k] <= endp[0]
            /\ endp[0] <= Len(subject)

\* ((a)|b)+ has matched "bb" in "bb a" after an earlier call on another
\* subject: slot 1 lies inside slot 0, slot 2 is null
CaptureTableConsistencyWitness ==
  /\ Returned
  /\ result = 1
  /\ pattern = << chLP, chLP, chA, chRP, chOr, chB, chRP, chPlus >>
  /\ subject = << chB, chB, chSp, chA >>
  /\ startp[0] = 0 /\ endp[0] = 2
  /\ startp[1] = 1 /\ endp[1] = 2
  /\ startp[2] = NOPTR /\ endp[2] = NOPTR

-----------------------------------------------------------------------------
\* the indices of the tokens that open a group, in the order of the pattern;
\* the tokens of a character class open none
RECURSIVE GroupOpens(_, _)
GroupOpens(toks, i) ==
  IF i > Len(toks) THEN << >>
  ELSE CASE toks[i] = LSQBRAC -> GroupOpens(toks, ClassEnd(toks, i) + 1)
         [] toks[i] = LBRAC -> << i >> \o GroupOpens(toks, i + 1)
         [] OTHER -> GroupOpens(toks, i + 1)

\* the numbers of the groups that are the operand of * or +
RepeatedGroups(toks) ==
  {k \in 1..Len(GroupOpens(toks, 1)) :
     SuffixOf(toks, GroupOpens(toks, 1)[k]) \in {ASTERIX, PLUSS}}

\* the positions on the path of its passages through the node op waiting
\* at pc
Passages(path, pc, op) ==
  {i \in 1..Len(path) : path[i].pc = pc /\ OP(prog.program, path[i].scan) = op}

Last(S) == CHOOSE i \in S : \A j \in S : j <= i

(* C25: a group inside a repeat reports its last iteration.  When group k  *)
(* is the operand of * or + and the successful path traverses it several   *)
(* times, startp[k] and endp[k] are the offsets of the path's last passage *)
(* through OPEN+k and of its last passage through CLOSE+k, that CLOSE+k is *)
(* the only one after the last OPEN+k (start and end come from the same    *)
(* traversal), and every other traversal lies before it in the subject.    *)
LastIterationReported ==
  (Returned /\ result = 1) =>
    \A k \in RepeatedGroups(PatternTokens) :
      LET opens == Passages(okpath, "open", OPEN + k)
          closes == Passages(okpath, "close", CLOSE + k)
      IN Cardinality(opens) >= 2 =>
           /\ Cardinality(closes) = Cardinality(opens)
           /\ Last(opens) < Last(closes)
           /\ \A c \in closes : c > Last(opens) => c = Last(closes)
           /\ startp[k] = okpath[Last(opens)].save
           /\ endp[k] = okpath[Last(closes)].save
           /\ startp[k] <= endp[k]
           /\ \A o \in opens \ {Last(opens)} :
                \E c \in closes :
                  /\ o < c /\ c < Last(opens)
                  /\ okpath[o].save <= okpath[c].save
                  /\ okpath[c].save <= startp[k]

\* (a)*b has matched "aaab": the group was traversed three times, the slot
\* holds the third "a"
LastIterationReportedWitness ==
  /\ Returned
  /\ result = 1
  /\ pattern = << chLP, chA, chRP, chStar, chB >>
  /\ subject = << chA, chA, chA, chB >>
  /\ Cardinality(Passages(okpath, "open", OPEN + 1)) = 3
  /\ startp[1] = 2 /\ endp[1] = 3

=============================================================================
